---- MODULE Spec2Model ----
(***************************************************************************)
(* Model of the fee engine (noru/feecalc): the rule queue, the execution  *)
(* context (Vars, FeeItems, Logs, lastExecutedRule, enableLog) and the    *)
(* operations New, EnableLog, AddRule, Execute, ExecuteN, Context.SetVar  *)
(* and Reset.  A queued rule is modelled by the sequence of statements    *)
(* that preprocessExpression hands to the evaluator, a statement by the   *)
(* program the expression library compiles it to; rule texts themselves   *)
(* are token sequences, rewritten and split as the code does it.          *)
(***************************************************************************)
EXTENDS Integers, Sequences, FiniteSets, TLC

\* ------------------------------------------------------------------ bounds
MaxRules  == 2         \* longest rule queue explored
MaxMerged == 2         \* most rule results merged between two resets
MaxCount  == 2         \* largest count passed to ExecuteN
MaxChunks == 4         \* most pieces a written rule text is made of
WordBits  == 4         \* bits of the model's widest integers (int64, uint64)

\* ------------------------------------------------------- scalar values
\* interface{} values held in Vars: a number or nil
Num(n) == [t |-> "num", n |-> n]
NilVal == [t |-> "nil", n |-> 0]

\* a value of a given Go type: the rule arithmetic of the model works on
\* "num" (the float64 of a numeric literal); n is the number a value holds
\* (for a string the digits it is made of, for a bool 1 or 0)
Typed(kind, n) == [t |-> kind, n |-> n]

SignedKinds   == { "int", "int8", "int16", "int32", "int64" }
UnsignedKinds == { "uint", "uint8", "uint16", "uint32", "uint64" }

\* 2^k
RECURSIVE Pow2(_)
Pow2(k) == IF k = 0 THEN 1 ELSE 2 * Pow2(k - 1)

\* the Go conversion int64(val): the value of the same bits read as a
\* signed integer of WordBits bits
int64Of(n) == ((n + Pow2(WordBits - 1)) % Pow2(WordBits)) - Pow2(WordBits - 1)

\* toDecimal(v): the type switch; every integer kind goes through int64
toDecimal(v) ==
  CASE v.t \in {"num", "decimal", "float64", "float32"} -> v.n
    [] v.t \in SignedKinds \cup UnsignedKinds         -> int64Of(v.n)
    [] v.t = "string"                                  -> v.n
    [] OTHER                                           -> 0

VarNames == {"amount", "rate"}

\* the variables callers write with SetVar
SetVarKeys == {"rate"}

\* the empty map (make(map[string]interface{}))
EmptyMap == [k \in {} |-> NilVal]

\* a faulty write that keeps the value a key already has
MapSetKeepsOld(m, k, v) == [x \in (DOMAIN m) \cup {k} |-> IF x \in DOMAIN m THEN m[x] ELSE v]

\* m with m[k] = v, as Go's m[k] = v on a map
MapSet(m, k, v) == [x \in (DOMAIN m) \cup {k} |-> IF x = k THEN v ELSE m[x]]

\* m overwritten by every entry of upd (for k, v := range upd { m[k] = v })
MapMerge(m, upd) ==
  [x \in (DOMAIN m) \cup (DOMAIN upd) |-> IF x \in DOMAIN upd THEN upd[x] ELSE m[x]]

\* Context.GetVar(key): val, ok := c.Vars[key]
GetVar(ctx, key) ==
  IF key \in DOMAIN ctx.Vars THEN [val |-> ctx.Vars[key], ok |-> TRUE]
  ELSE [val |-> NilVal, ok |-> FALSE]

\* ------------------------------------------------------------ fee items
FeeItem(a, c) == [Amount |-> a, Currency |-> c]

\* a faulty constructor that takes the number of any value
newFeeItemOfAnything(amount, currency) == FeeItem(amount.n, currency)

\* newFeeItem: the type switch (decimal, float64, int, int64 and a string
\* that parses keep their value, anything else is decimal zero)
newFeeItem(amount, currency) ==
  CASE amount.t \in {"num", "decimal", "float64"} -> FeeItem(amount.n, currency)
    [] amount.t = "int"                          -> FeeItem(int64Of(amount.n), currency)
    [] amount.t = "int64"                        -> FeeItem(amount.n, currency)
    [] amount.t = "string"                       -> FeeItem(amount.n, currency)
    [] OTHER                                     -> FeeItem(0, currency)

\* --------------------------------------------- expressions of the rules
\* argument expressions: a literal, a variable, a variable plus one, and
\* Add(variable, 0)
Const(n) == [k |-> "const", name |-> "", n |-> n]
Dec(x)   == [k |-> "dec", name |-> x, n |-> 0]
Var(x)   == [k |-> "var", name |-> x, n |-> 0]
Inc(x)   == [k |-> "inc", name |-> x, n |-> 1]

\* statements (one compiled expression each); StrElem(stmt) is a string
\* literal inside an array literal, stmt being what the string spells
SetStmt(key, arg)  == [op |-> "Set", key |-> key, arg |-> arg, cur |-> "", items |-> <<>>]
FeeStmt(arg, cur)  == [op |-> "Fee", key |-> "", arg |-> arg, cur |-> cur, items |-> <<>>]
NilStmt            == [op |-> "Nil", key |-> "", arg |-> Const(0), cur |-> "", items |-> <<>>]
BadStmt            == [op |-> "Bad", key |-> "", arg |-> Const(0), cur |-> "", items |-> <<>>]
ValStmt(arg)       == [op |-> "Val", key |-> "", arg |-> arg, cur |-> "", items |-> <<>>]
StrElem(stmt)      == [op |-> "Str", key |-> "", arg |-> stmt.arg, cur |-> stmt.cur, items |-> <<>>]
StrsStmt(items)    == [op |-> "Strs", key |-> "", arg |-> Const(0), cur |-> "", items |-> items]
FeesStmt(items)    == [op |-> "Fees", key |-> "", arg |-> Const(0), cur |-> "", items |-> items]

\* outputs of expr.Run (OutVal: a value that is neither nil, a fee item nor
\* an array, such as a number or a boolean)
OutNil         == [t |-> "nil", fee |-> FeeItem(0, ""), items |-> <<>>]
OutFee(f)      == [t |-> "fee", fee |-> f, items |-> <<>>]
OutVal         == [t |-> "val", fee |-> FeeItem(0, ""), items |-> <<>>]
OutStrs(items) == [t |-> "strs", fee |-> FeeItem(0, ""), items |-> items]
OutArr(items)  == [t |-> "arr", fee |-> FeeItem(0, ""), items |-> items]

NoErr      == "none"
CompileErr == "failed to compile expression"
RunErr     == "failed to execute expression"
CountErr   == "count must be positive"
CtxNilErr  == "context cannot be nil"

\* value of an argument expression in env: an unknown name does not compile,
\* arithmetic on nil fails at run time
EvalArg(e, env) ==
  CASE e.k = "const" -> [err |-> NoErr, v |-> Num(e.n)]
    [] e.k = "var"   -> IF e.name \in DOMAIN env
                        THEN [err |-> NoErr, v |-> env[e.name]]
                        ELSE [err |-> CompileErr, v |-> NilVal]
    [] e.k = "dec"   -> IF e.name \in DOMAIN env
                        THEN [err |-> NoErr, v |-> Typed("decimal", toDecimal(env[e.name]) + 0)]
                        ELSE [err |-> CompileErr, v |-> NilVal]
    [] OTHER         -> IF e.name \notin DOMAIN env
                        THEN [err |-> CompileErr, v |-> NilVal]
                        ELSE IF env[e.name].t = "nil"
                        THEN [err |-> RunErr, v |-> NilVal]
                        ELSE [err |-> NoErr, v |-> Num(env[e.name].n + 1)]

\* the elements of an array value: a fee item, or a value that is none
FeeElem(f) == [isFee |-> TRUE, fee |-> f]
NotFeeElem == [isFee |-> FALSE, fee |-> FeeItem(0, "")]

\* whether the element expression item of an array literal evaluates its
\* argument (a string literal and nil evaluate nothing)
evaluatesArg(item) == item.op \in {"Fee", "Val"}

\* a faulty evaluator that runs a string element as the expression it spells
elementOfRunsStrings(item, v) ==
  IF item.op \in {"Fee", "Str"} THEN FeeElem(newFeeItem(v, item.cur)) ELSE NotFeeElem

\* the value of the element expression item, v being the value of its
\* argument: a fee call gives a fee item, a string literal, nil or a number
\* gives itself
elementOf(item, v) ==
  IF item.op = "Fee" THEN FeeElem(newFeeItem(v, item.cur)) ELSE NotFeeElem

\* the value of an array literal [e1, e2, ..], its elements left to right
RECURSIVE EvalFees(_, _)
EvalFees(items, env) ==
  IF items = <<>> THEN [err |-> NoErr, elems |-> <<>>]
  ELSE IF Head(items).op = "Bad" THEN [err |-> CompileErr, elems |-> <<>>]
  ELSE LET a == EvalArg(Head(items).arg, env) IN
       IF evaluatesArg(Head(items)) /\ a.err # NoErr THEN [err |-> a.err, elems |-> <<>>]
       ELSE LET r == EvalFees(Tail(items), env) IN
            IF r.err # NoErr THEN r
            ELSE [err |-> NoErr, elems |-> << elementOf(Head(items), a.v) >> \o r.elems]

\* a faulty evaluator whose Set records the update but does not write the
\* rule's environment
executeSingleExpressionSetHidesValue(stmt, st) ==
  CASE stmt.op = "Bad" -> [err |-> CompileErr, out |-> OutNil, st |-> st]
    [] stmt.op = "Nil" -> [err |-> NoErr, out |-> OutNil, st |-> st]
    [] stmt.op = "Set" ->
         LET a == EvalArg(stmt.arg, st.env) IN
         IF a.err # NoErr THEN [err |-> a.err, out |-> OutNil, st |-> st]
         ELSE [err |-> NoErr, out |-> OutNil,
               st |-> [env |-> st.env, upd |-> MapSet(st.upd, stmt.key, a.v)]]
    [] stmt.op = "Fee" ->
         LET a == EvalArg(stmt.arg, st.env) IN
         IF a.err # NoErr THEN [err |-> a.err, out |-> OutNil, st |-> st]
         ELSE [err |-> NoErr, out |-> OutFee(newFeeItem(a.v, stmt.cur)), st |-> st]
    [] stmt.op = "Val" ->
         LET a == EvalArg(stmt.arg, st.env) IN
         IF a.err # NoErr THEN [err |-> a.err, out |-> OutNil, st |-> st]
         ELSE [err |-> NoErr, out |-> OutVal, st |-> st]
    [] stmt.op = "Strs" -> [err |-> NoErr, out |-> OutStrs(stmt.items), st |-> st]
    [] OTHER ->
         LET r == EvalFees(stmt.items, st.env) IN
         IF r.err # NoErr THEN [err |-> r.err, out |-> OutNil, st |-> st]
         ELSE [err |-> NoErr, out |-> OutArr(r.elems), st |-> st]

\* executeSingleExpression on the evaluation state st = [env, upd]:
\* env is the rule's environment, upd the contextUpdates the Set closure fills
executeSingleExpression(stmt, st) ==
  CASE stmt.op = "Bad" -> [err |-> CompileErr, out |-> OutNil, st |-> st]
    [] stmt.op = "Nil" -> [err |-> NoErr, out |-> OutNil, st |-> st]
    [] stmt.op = "Set" ->
         LET a == EvalArg(stmt.arg, st.env) IN
         IF a.err # NoErr THEN [err |-> a.err, out |-> OutNil, st |-> st]
         ELSE [err |-> NoErr, out |-> OutNil,
               st |-> [env |-> MapSet(st.env, stmt.key, a.v),
                       upd |-> MapSet(st.upd, stmt.key, a.v)]]
    [] stmt.op = "Fee" ->
         LET a == EvalArg(stmt.arg, st.env) IN
         IF a.err # NoErr THEN [err |-> a.err, out |-> OutNil, st |-> st]
         ELSE [err |-> NoErr, out |-> OutFee(newFeeItem(a.v, stmt.cur)), st |-> st]
    [] stmt.op = "Val" ->
         LET a == EvalArg(stmt.arg, st.env) IN
         IF a.err # NoErr THEN [err |-> a.err, out |-> OutNil, st |-> st]
         ELSE [err |-> NoErr, out |-> OutVal, st |-> st]
    [] stmt.op = "Strs" -> [err |-> NoErr, out |-> OutStrs(stmt.items), st |-> st]
    [] OTHER ->
         LET r == EvalFees(stmt.items, st.env) IN
         IF r.err # NoErr THEN [err |-> r.err, out |-> OutNil, st |-> st]
         ELSE [err |-> NoErr, out |-> OutArr(r.elems), st |-> st]

\* extractExpressionStrings: the strings of an all-string array, else none
extractExpressionStrings(output) ==
  IF output.t = "strs" THEN output.items ELSE <<>>

\* the fee items among the elements of an array, in order
RECURSIVE feeItemsIn(_)
feeItemsIn(elems) ==
  IF elems = <<>> THEN <<>>
  ELSE (IF Head(elems).isFee THEN << Head(elems).fee >> ELSE <<>>) \o feeItemsIn(Tail(elems))

\* a faulty extraction that turns an output without fee into a zero fee item
extractFeeItemsCountsNil(output, feeItems) ==
  CASE output.t = "fee" -> Append(feeItems, output.fee)
    [] output.t = "arr" -> feeItems \o feeItemsIn(output.items)
    [] OTHER            -> Append(feeItems, FeeItem(0, ""))

\* extractFeeItems: feeItems extended by the fee items output carries
extractFeeItems(output, feeItems) ==
  CASE output.t = "fee" -> Append(feeItems, output.fee)
    [] output.t = "arr" -> feeItems \o feeItemsIn(output.items)
    [] OTHER            -> feeItems

\* ------------------------------------------------------ executeExpression
\* a faulty loop over the statements before the last one that loses what
\* their Set calls wrote
RECURSIVE runPartsDropsUpdates(_, _)
runPartsDropsUpdates(parts, st) ==
  IF parts = <<>> THEN [err |-> NoErr, st |-> st]
  ELSE LET r == executeSingleExpression(Head(parts), st) IN
       IF r.err # NoErr THEN [err |-> r.err, st |-> st]
       ELSE runPartsDropsUpdates(Tail(parts), st)

\* the statements before the last one, run in order for their side effects;
\* their outputs are discarded and the first fault stops the rule
RECURSIVE runParts(_, _)
runParts(parts, st) ==
  IF parts = <<>> THEN [err |-> NoErr, st |-> st]
  ELSE LET r == executeSingleExpression(Head(parts), st) IN
       IF r.err # NoErr THEN [err |-> r.err, st |-> r.st]
       ELSE runParts(Tail(parts), r.st)

\* a faulty loop over the returned strings that skips a string that fails
RECURSIVE runSubExprsIgnoresFault(_, _, _)
runSubExprsIgnoresFault(exprs, st, fees) ==
  IF exprs = <<>> THEN [err |-> NoErr, st |-> st, fees |-> fees]
  ELSE LET r == executeSingleExpression(Head(exprs), st) IN
       IF r.err # NoErr THEN runSubExprsIgnoresFault(Tail(exprs), st, fees)
       ELSE runSubExprsIgnoresFault(Tail(exprs), r.st, extractFeeItems(r.out, fees))

\* the strings of a returned array, each evaluated in the same environment;
\* fees collects the fee items produced so far
RECURSIVE runSubExprs(_, _, _)
runSubExprs(exprs, st, fees) ==
  IF exprs = <<>> THEN [err |-> NoErr, st |-> st, fees |-> fees]
  ELSE LET r == executeSingleExpression(Head(exprs), st) IN
       IF r.err # NoErr THEN [err |-> r.err, st |-> r.st, fees |-> fees]
       ELSE runSubExprs(Tail(exprs), r.st, extractFeeItems(r.out, fees))

\* what the evaluation of a rule has produced when it stops: the error (if
\* any), the fee items collected and the contextUpdates recorded so far
Produced(err, fees, upd) == [err |-> err, fees |-> fees, upd |-> upd]

\* executeExpression after the returned strings were evaluated
afterSubExprs(sub) == Produced(sub.err, sub.fees, sub.st.upd)

\* executeExpression after its final expression was evaluated: a returned
\* array of strings is evaluated element by element, any other output is
\* searched for fee items
afterFinalExpr(last) ==
  IF last.err # NoErr THEN Produced(last.err, <<>>, last.st.upd)
  ELSE IF Len(extractExpressionStrings(last.out)) > 0
  THEN afterSubExprs(runSubExprs(extractExpressionStrings(last.out), last.st, <<>>))
  ELSE Produced(NoErr, extractFeeItems(last.out, <<>>), last.st.upd)

\* executeExpression after the statements before the last one
afterParts(rule, front) ==
  IF front.err # NoErr THEN Produced(front.err, <<>>, front.st.upd)
  ELSE afterFinalExpr(executeSingleExpression(rule[Len(rule)], front.st))

\* the body of executeExpression up to its return: the environment is a copy
\* of ctx.Vars, contextUpdates starts empty
evalRule(rule, Vars) ==
  afterParts(rule, runParts(SubSeq(rule, 1, Len(rule) - 1),
                            [env |-> Vars, upd |-> EmptyMap]))

\* a *RuleResult: isNil, or FeeItems plus the updates (Context = nil when
\* hasCtx is false)
NilResult == [isNil |-> TRUE, FeeItems |-> <<>>, hasCtx |-> FALSE, Updates |-> EmptyMap]

\* the return of executeExpression: every fault returns (nil, err), a rule
\* without effect or update returns (nil, nil)
ruleResult(r) ==
  IF r.err # NoErr THEN [err |-> r.err, result |-> NilResult]
  ELSE IF Len(r.fees) = 0 /\ DOMAIN r.upd = {}
  THEN [err |-> NoErr, result |-> NilResult]
  ELSE [err |-> NoErr,
        result |-> [isNil |-> FALSE, FeeItems |-> r.fees,
                    hasCtx |-> DOMAIN r.upd # {}, Updates |-> r.upd]]

\* executeExpression(exprStr, ctx): (result, err); an empty rule text
\* returns (nil, nil)
executeExpression(rule, Vars) ==
  IF rule = <<>> THEN [err |-> NoErr, result |-> NilResult]
  ELSE ruleResult(evalRule(rule, Vars))

\* ------------------------------------------------------------ rule texts
\* A rule text is a sequence of lexical tokens: words (identifiers and
\* numbers), the characters = ; > + , " ( ) and the blank.
IdentTokens == { "amount", "USD", "a", "b" }
NumTokens   == { "1", "10" }
IsIdent(t)  == t \in IdentTokens
IsWord(t)   == t \in IdentTokens \cup NumTokens
Blank       == " "

\* strings.TrimSpace
RECURSIVE TrimLeft(_)
TrimLeft(s) == IF s # <<>> /\ Head(s) = Blank THEN TrimLeft(Tail(s)) ELSE s

RECURSIVE TrimRight(_)
TrimRight(s) ==
  IF s # <<>> /\ s[Len(s)] = Blank THEN TrimRight(SubSeq(s, 1, Len(s) - 1)) ELSE s

TrimSpace(s) == TrimRight(TrimLeft(s))

\* strings.HasPrefix(s, sep)
HasPrefix(s, sep) == Len(s) >= Len(sep) /\ SubSeq(s, 1, Len(sep)) = sep

\* strings.Split(s, sep), cur being the piece read so far: n separators
\* give n + 1 pieces, empty ones included
RECURSIVE SplitAcc(_, _, _)
SplitAcc(s, sep, cur) ==
  IF s = <<>> THEN << cur >>
  ELSE IF HasPrefix(s, sep)
  THEN << cur >> \o SplitAcc(SubSeq(s, Len(sep) + 1, Len(s)), sep, <<>>)
  ELSE SplitAcc(Tail(s), sep, Append(cur, Head(s)))

Split(s, sep) == SplitAcc(s, sep, <<>>)

\* strings.Join(parts, "; ")
RECURSIVE Join(_)
Join(parts) ==
  IF Len(parts) = 1 THEN parts[1]
  ELSE parts[1] \o << ";", Blank >> \o Join(Tail(parts))

\* the index of the first token of part after index i that is not a blank
\* (Len(part) + 1 when there is none)
RECURSIVE skipBlanks(_, _)
skipBlanks(part, i) ==
  IF i + 1 <= Len(part) /\ part[i + 1] = Blank THEN skipBlanks(part, i + 1) ELSE i + 1

\* assignmentPattern \b([a-zA-Z_][a-zA-Z0-9_]*)\s*=\s*(.+)$ matched with the
\* identifier at index i: a word boundary before it, blanks, one =, and at
\* least one more character up to the end of part
matchesAt(part, i) ==
  /\ IsIdent(part[i])
  /\ i = 1 \/ ~IsWord(part[i - 1])
  /\ skipBlanks(part, i) < Len(part)
  /\ part[skipBlanks(part, i)] = "="

\* FindStringSubmatch: the leftmost index from i on where the pattern
\* matches, 0 when it matches nowhere (the pattern is not anchored at the
\* start of part)
RECURSIVE findMatch(_, _)
findMatch(part, i) ==
  IF i > Len(part) THEN 0
  ELSE IF matchesAt(part, i) THEN i
  ELSE findMatch(part, i + 1)

\* fmt.Sprintf(`Set("%s", %s)`, varName, valueExpr)
SetCall(varName, valueExpr) == << "Set(", varName, "," >> \o valueExpr \o << ")" >>

\* a faulty rewrite that leaves every part as it is
rewritePartNever(part, i) == part

\* one part of preprocessExpression's loop, i being the index of the match:
\* a matching part is replaced whole by the Set call of the matched name
\* and the trimmed remainder
rewritePart(part, i) ==
  IF i > 0
  THEN SetCall(part[i], TrimSpace(SubSeq(part, skipBlanks(part, i) + 1, Len(part))))
  ELSE part

\* the loop of preprocessExpression over the trimmed part
processPart(part) ==
  IF part = <<>> THEN <<>> ELSE << rewritePart(part, findMatch(part, 1)) >>

RECURSIVE processParts(_)
processParts(parts) ==
  IF parts = <<>> THEN <<>>
  ELSE processPart(TrimSpace(Head(parts))) \o processParts(Tail(parts))

\* the end of preprocessExpression: the text itself when no part is left
joinProcessed(exprStr, processedParts) ==
  IF Len(processedParts) = 0 THEN exprStr ELSE Join(processedParts)

\* preprocessExpression(exprStr)
preprocessExpression(exprStr) ==
  IF exprStr = <<>> THEN exprStr
  ELSE joinProcessed(exprStr, processParts(Split(exprStr, << ";" >>)))

\* strings.Contains(s, sep)
RECURSIVE Contains(_, _)
Contains(s, sep) ==
  IF Len(s) < Len(sep) THEN FALSE
  ELSE HasPrefix(s, sep) \/ Contains(Tail(s), sep)

\* the parts before the last one that executeExpression evaluates: trimmed,
\* the empty ones skipped
RECURSIVE frontParts(_)
frontParts(parts) ==
  IF Len(parts) <= 1 THEN <<>>
  ELSE (IF TrimSpace(Head(parts)) = <<>> THEN <<>> ELSE << TrimSpace(Head(parts)) >>)
       \o frontParts(Tail(parts))

\* the expressions executeExpression evaluates for a preprocessed text, the
\* last one being finalExpr
expressionsOf(preprocessed) ==
  IF Contains(preprocessed, << ";", Blank >>)
  THEN frontParts(Split(preprocessed, << ";", Blank >>))
       \o << TrimSpace(Split(preprocessed, << ";", Blank >>)
                         [Len(Split(preprocessed, << ";", Blank >>))]) >>
  ELSE << preprocessed >>

\* an expression without its blanks, as the evaluator's lexer reads it
RECURSIVE withoutBlanks(_)
withoutBlanks(s) ==
  IF s = <<>> THEN <<>>
  ELSE (IF Head(s) = Blank THEN <<>> ELSE << Head(s) >>) \o withoutBlanks(Tail(s))

\* the argument expressions the evaluator's parser accepts
IsArg(e) ==
  \/ Len(e) = 1 /\ IsWord(e[1])
  \/ Len(e) = 3 /\ IsIdent(e[1]) /\ e[2] = "+" /\ e[3] = "1"

ArgOf(e) ==
  IF Len(e) = 3 THEN Inc(e[1])
  ELSE IF e[1] = "1" THEN Const(1)
  ELSE IF e[1] = "10" THEN Const(10)
  ELSE Var(e[1])

\* a comparison of a variable with a number: == >= >
IsComparison(e) ==
  /\ Len(e) \in 3 .. 4 /\ IsIdent(e[1]) /\ e[Len(e)] \in NumTokens
  /\ SubSeq(e, 2, Len(e) - 1) \in { << "=", "=" >>, << ">", "=" >>, << ">" >> }

\* a string literal: "w" or "w=w"
IsString(e) ==
  /\ Len(e) \in {3, 5} /\ e[1] = "\"" /\ e[Len(e)] = "\""
  /\ IsWord(e[2])
  /\ Len(e) = 5 => (e[3] = "=" /\ IsWord(e[4]))

\* the value of a string literal ("a=b" is the only one with an = the
\* texts hold)
CurrencyOf(e) == IF Len(e) = 3 THEN e[2] ELSE "a=b"

\* a fee call $(number, string)
IsFeeCall(e) ==
  /\ Len(e) \in {7, 9} /\ e[1] = "$(" /\ e[2] \in NumTokens /\ e[3] = ","
  /\ e[Len(e)] = ")" /\ IsString(SubSeq(e, 4, Len(e) - 1))

\* a call Set("name", arg)
IsSetCall(e) ==
  /\ Len(e) >= 5 /\ e[1] = "Set(" /\ IsIdent(e[2]) /\ e[3] = ","
  /\ e[Len(e)] = ")" /\ IsArg(SubSeq(e, 4, Len(e) - 1))

\* expr.Compile on an expression without blanks: the statement it is, or
\* one that does not compile
compileTokens(e) ==
  IF IsSetCall(e) THEN SetStmt(e[2], ArgOf(SubSeq(e, 4, Len(e) - 1)))
  ELSE IF IsFeeCall(e) THEN FeeStmt(ArgOf(<< e[2] >>), CurrencyOf(SubSeq(e, 4, Len(e) - 1)))
  ELSE IF IsComparison(e) THEN ValStmt(Var(e[1]))
  ELSE IF IsArg(e) THEN ValStmt(ArgOf(e))
  ELSE BadStmt

\* executeSingleExpression's view of an expression string: the empty
\* string returns (nil, nil) without being compiled, any other is compiled
compileExpr(exprStr) ==
  IF exprStr = <<>> THEN NilStmt ELSE compileTokens(withoutBlanks(exprStr))

\* the statements executeExpression evaluates for a rule text
statementsOf(exprs) == [k \in 1 .. Len(exprs) |-> compileExpr(exprs[k])]

compileRule(exprStr) ==
  IF exprStr = <<>> THEN <<>>
  ELSE statementsOf(expressionsOf(preprocessExpression(exprStr)))

\* --------------------------------------------------------------- context
\* the sum of the amounts of the items of one currency
RECURSIVE SumOf(_, _)
SumOf(items, currency) ==
  IF items = <<>> THEN 0
  ELSE (IF Head(items).Currency = currency THEN Head(items).Amount ELSE 0)
       + SumOf(Tail(items), currency)

\* summarizeFeeItems: one total per currency of items (output order is the
\* iteration order of a Go map, so the summary is modelled as a set)
\* currencyMap[c] of a Go map: the zero decimal for a missing key
amountOf(m, c) == IF c \in DOMAIN m THEN m[c] ELSE 0

\* a faulty first loop that stores the amount instead of adding it
RECURSIVE currencyMapOverwrites(_, _)
currencyMapOverwrites(items, m) ==
  IF items = <<>> THEN m
  ELSE currencyMapOverwrites(Tail(items),
                             MapSet(m, Head(items).Currency, Head(items).Amount))

\* a faulty first loop that keeps only the first amount of a currency
RECURSIVE currencyMapKeepsFirst(_, _)
currencyMapKeepsFirst(items, m) ==
  IF items = <<>> THEN m
  ELSE currencyMapKeepsFirst(Tail(items),
         MapSet(m, Head(items).Currency,
                IF Head(items).Currency \in DOMAIN m
                THEN m[Head(items).Currency] ELSE Head(items).Amount))

\* the first loop of summarizeFeeItems: for each item in order,
\* currencyMap[item.Currency] = currencyMap[item.Currency].Add(item.Amount)
RECURSIVE currencyMapOf(_, _)
currencyMapOf(items, m) ==
  IF items = <<>> THEN m
  ELSE currencyMapOf(Tail(items),
                     MapSet(m, Head(items).Currency,
                            amountOf(m, Head(items).Currency) + Head(items).Amount))

\* the second loop of summarizeFeeItems: one FeeItem per key of the map
summaryOf(m) == { FeeItem(m[c], c) : c \in DOMAIN m }

summarizeFeeItems(items) == summaryOf(currencyMapOf(items, EmptyMap))

\* a faulty Context field that is a copy of the variables
ctxSnapshot(ctx) == [live |-> FALSE, Vars |-> ctx.Vars]

\* the Context field of a result: e.ctx, the pointer to the engine's context
ctxPointer(ctx) == [live |-> TRUE, Vars |-> EmptyMap]

\* a faulty result whose lists are the lists of the context themselves
resultSharesLists == { "FeeItems", "Logs" }

\* the lists of a result that share storage with the context: none, FeeItems
\* and Logs are made anew and copied
resultShares == { }

\* buildExecuteResult(processed) on context ctx
buildExecuteResult(ctx, processed) ==
  [ProcessedRules |-> processed, FeeItems |-> ctx.FeeItems,
   Summary |-> summarizeFeeItems(ctx.FeeItems), Logs |-> ctx.Logs,
   Context |-> ctxPointer(ctx), shares |-> resultShares]

NoResult == [ProcessedRules |-> -1, FeeItems |-> <<>>, Summary |-> {}, Logs |-> <<>>,
             Context |-> [live |-> FALSE, Vars |-> EmptyMap], shares |-> {}]

\* executeRule(rule)
executeRule(ctx, rule) == executeExpression(rule, ctx.Vars)

\* the fee items of a rule result (none for a nil result)
resultFeeItems(result) == IF result.isNil THEN <<>> ELSE result.FeeItems

\* a faulty merge that never writes the updates of a rule result
mergedVarsDropsUpdates(ctx, result) == ctx.Vars

\* ctx.Vars after the SetVar calls for the updates of a rule result
mergedVars(ctx, result) ==
  IF ~result.isNil /\ result.hasCtx THEN MapMerge(ctx.Vars, result.Updates) ELSE ctx.Vars

\* the log entry of a rule: its text, the variables after the merge, its
\* own fee items
logEntry(rule, varsAfter, ruleFeeItems) ==
  [Rule |-> rule, Vars |-> varsAfter, FeeItems |-> ruleFeeItems]

\* a faulty merge whose log entry carries every fee item accumulated so far
mergeRuleResultLogsAllFees(ctx, rule, result) ==
  [ctx EXCEPT !.FeeItems = ctx.FeeItems \o resultFeeItems(result),
              !.Vars = mergedVars(ctx, result),
              !.Logs = IF ctx.enableLog
                       THEN Append(ctx.Logs,
                                   logEntry(rule, mergedVars(ctx, result),
                                            ctx.FeeItems \o resultFeeItems(result)))
                       ELSE ctx.Logs]

\* a faulty merge that puts the fee items of a rule before the accumulated ones
mergeRuleResultPrepends(ctx, rule, result) ==
  [ctx EXCEPT !.FeeItems = resultFeeItems(result) \o ctx.FeeItems,
              !.Vars = mergedVars(ctx, result),
              !.Logs = IF ctx.enableLog
                       THEN Append(ctx.Logs, logEntry(rule, mergedVars(ctx, result),
                                                      resultFeeItems(result)))
                       ELSE ctx.Logs]

\* a faulty merge that writes the log entry whether logging is enabled or not
mergeRuleResultLogsAlways(ctx, rule, result) ==
  [ctx EXCEPT !.FeeItems = ctx.FeeItems \o resultFeeItems(result),
              !.Vars = mergedVars(ctx, result),
              !.Logs = Append(ctx.Logs, logEntry(rule, mergedVars(ctx, result),
                                                 resultFeeItems(result)))]

\* the log entries with the map vars in place of their snapshots
WithVars(logs, varsNow) == [j \in DOMAIN logs |-> [logs[j] EXCEPT !.Vars = varsNow]]

\* a faulty merge whose log entries hold the context's map itself instead of
\* a copy: every entry shows the variables as they are now
mergeRuleResultSharesVars(ctx, rule, result) ==
  [ctx EXCEPT !.FeeItems = ctx.FeeItems \o resultFeeItems(result),
              !.Vars = mergedVars(ctx, result),
              !.Logs = IF ctx.enableLog
                       THEN Append(WithVars(ctx.Logs, mergedVars(ctx, result)),
                                   logEntry(rule, mergedVars(ctx, result),
                                            resultFeeItems(result)))
                       ELSE ctx.Logs]

\* a faulty merge that writes no log entry for a rule without result
mergeRuleResultSkipsNilLog(ctx, rule, result) ==
  [ctx EXCEPT !.FeeItems = ctx.FeeItems \o resultFeeItems(result),
              !.Vars = mergedVars(ctx, result),
              !.Logs = IF ctx.enableLog /\ ~result.isNil
                       THEN Append(ctx.Logs, logEntry(rule, mergedVars(ctx, result),
                                                      resultFeeItems(result)))
                       ELSE ctx.Logs]

\* one iteration of ExecuteN's loop after executeRule succeeded: the fee
\* items are appended, the updates are written with SetVar, and a log entry
\* is appended when logging is enabled
mergeRuleResult(ctx, rule, result) ==
  [ctx EXCEPT !.FeeItems = ctx.FeeItems \o resultFeeItems(result),
              !.Vars = mergedVars(ctx, result),
              !.Logs = IF ctx.enableLog
                       THEN Append(ctx.Logs, logEntry(rule, mergedVars(ctx, result),
                                                      resultFeeItems(result)))
                       ELSE ctx.Logs]

\* a faulty loop that lets what the faulting rule had already produced (its
\* Set calls, its fee items) reach the context
RECURSIVE execLoopMergesOnFault(_, _, _, _, _)
execLoopMergesOnFault(ctx, rules, i, endIndex, trace) ==
  IF i >= endIndex
  THEN [ctx |-> [ctx EXCEPT !.lastExecutedRule = endIndex], err |-> NoErr,
        errIndex |-> -1, trace |-> trace,
        result |-> buildExecuteResult(ctx, Len(trace))]
  ELSE LET rule == rules[i + 1]
           r    == executeRule(ctx, rule)
           part == evalRule(rule, ctx.Vars)
       IN IF r.err # NoErr
          THEN [ctx |-> [ctx EXCEPT !.Vars = MapMerge(ctx.Vars, part.upd),
                                    !.FeeItems = ctx.FeeItems \o part.fees],
                err |-> r.err, errIndex |-> i,
                trace |-> Append(trace, i), result |-> NoResult]
          ELSE execLoopMergesOnFault(mergeRuleResult(ctx, rule, r.result), rules,
                                     i + 1, endIndex, Append(trace, i))

\* a faulty loop that, on a fault, stores the number of rules processed in
\* this call as the cursor
RECURSIVE execLoopFaultStoresProcessed(_, _, _, _, _)
execLoopFaultStoresProcessed(ctx, rules, i, endIndex, trace) ==
  IF i >= endIndex
  THEN [ctx |-> [ctx EXCEPT !.lastExecutedRule = endIndex], err |-> NoErr,
        errIndex |-> -1, trace |-> trace,
        result |-> buildExecuteResult(ctx, Len(trace))]
  ELSE LET rule == rules[i + 1]
           r    == executeRule(ctx, rule)
       IN IF r.err # NoErr
          THEN [ctx |-> [ctx EXCEPT !.lastExecutedRule = Len(trace)],
                err |-> r.err, errIndex |-> i,
                trace |-> Append(trace, i), result |-> NoResult]
          ELSE execLoopFaultStoresProcessed(mergeRuleResult(ctx, rule, r.result), rules,
                                            i + 1, endIndex, Append(trace, i))

\* a faulty loop that stores the number of rules processed in this call as
\* the cursor
RECURSIVE execLoopCursorIsProcessed(_, _, _, _, _)
execLoopCursorIsProcessed(ctx, rules, i, endIndex, trace) ==
  IF i >= endIndex
  THEN [ctx |-> [ctx EXCEPT !.lastExecutedRule = Len(trace)], err |-> NoErr,
        errIndex |-> -1, trace |-> trace,
        result |-> buildExecuteResult(ctx, Len(trace))]
  ELSE LET rule == rules[i + 1]
           r    == executeRule(ctx, rule)
       IN IF r.err # NoErr
          THEN [ctx |-> ctx, err |-> r.err, errIndex |-> i,
                trace |-> Append(trace, i), result |-> NoResult]
          ELSE execLoopCursorIsProcessed(mergeRuleResult(ctx, rule, r.result), rules,
                                         i + 1, endIndex, Append(trace, i))

\* a faulty loop whose error names the position of the faulting rule within
\* the call instead of its index in the queue
RECURSIVE execLoopErrorNamesPosition(_, _, _, _, _)
execLoopErrorNamesPosition(ctx, rules, i, endIndex, trace) ==
  IF i >= endIndex
  THEN [ctx |-> [ctx EXCEPT !.lastExecutedRule = endIndex], err |-> NoErr,
        errIndex |-> -1, trace |-> trace,
        result |-> buildExecuteResult(ctx, Len(trace))]
  ELSE LET rule == rules[i + 1]
           r    == executeRule(ctx, rule)
       IN IF r.err # NoErr
          THEN [ctx |-> ctx, err |-> r.err, errIndex |-> Len(trace),
                trace |-> Append(trace, i), result |-> NoResult]
          ELSE execLoopErrorNamesPosition(mergeRuleResult(ctx, rule, r.result), rules,
                                          i + 1, endIndex, Append(trace, i))

\* the for loop of ExecuteN from index i (0-based) up to endIndex, and the
\* statements after it; trace is the list of indices handed to executeRule
\* so far.  loopBody is one iteration, r being what executeRule returned: a
\* fault returns at once, without assigning the cursor.  Each iteration works
\* on values: what executeRule returned and the merged context are computed
\* once (c and r range over one-element sets) and handed on
Only(S) == CHOOSE x \in S : TRUE

RECURSIVE execLoop(_, _, _, _, _)
RECURSIVE loopBody(_, _, _, _, _, _)
loopBody(ctx, rules, i, endIndex, trace, r) ==
  IF r.err # NoErr
  THEN [ctx |-> ctx, err |-> r.err, errIndex |-> i,
        trace |-> Append(trace, i), result |-> NoResult]
  ELSE Only({ execLoop(c, rules, i + 1, endIndex, Append(trace, i)) :
                c \in { mergeRuleResult(ctx, rules[i + 1], r.result) } })

execLoop(ctx, rules, i, endIndex, trace) ==
  IF i >= endIndex
  THEN [ctx |-> [ctx EXCEPT !.lastExecutedRule = endIndex], err |-> NoErr,
        errIndex |-> -1, trace |-> trace,
        result |-> buildExecuteResult(ctx, Len(trace))]
  ELSE Only({ loopBody(ctx, rules, i, endIndex, trace, r) :
                r \in { executeRule(ctx, rules[i + 1]) } })

\* what a call returns without having touched the context
Failure(ctx, err) ==
  [ctx |-> ctx, err |-> err, errIndex |-> -1, trace |-> <<>>, result |-> NoResult]

\* a faulty check that lets a zero count through
countNotNegative(count) == count >= 0

\* the count check of ExecuteN
countIsPositive(count) == count > 0

\* a faulty early return that reports an error when nothing is left
exhaustedFails(ctx) == Failure(ctx, CountErr)

\* the early return of ExecuteN when the cursor is at the end of the queue
exhaustedReturn(ctx) ==
  [ctx |-> ctx, err |-> NoErr, errIndex |-> -1, trace |-> <<>>,
   result |-> buildExecuteResult(ctx, 0)]

\* a faulty end index that forgets the count
endIndexAtStart(startIndex, count, n) == startIndex

\* a faulty end index that forgets the start index
endIndexFromZero(startIndex, count, n) == IF count > n THEN n ELSE count

\* endIndex of ExecuteN: startIndex + count, clamped to the queue length n
endIndexOf(startIndex, count, n) ==
  IF startIndex + count > n THEN n ELSE startIndex + count

\* New never leaves the engine without a context
ctxIsNil == FALSE

\* ExecuteN(count) on context ctx and queue rules
ExecuteNOp(ctx, rules, count) ==
  IF ctxIsNil THEN Failure(ctx, CtxNilErr)
  ELSE IF ~countIsPositive(count) THEN Failure(ctx, CountErr)
  ELSE LET startIndex == ctx.lastExecutedRule IN
       IF startIndex >= Len(rules) THEN exhaustedReturn(ctx)
       ELSE execLoop(ctx, rules, startIndex,
                     endIndexOf(startIndex, count, Len(rules)), <<>>)

\* a faulty Execute that asks for the whole queue instead of the remainder
ExecuteOpWholeQueue(ctx, rules) == ExecuteNOp(ctx, rules, Len(rules))

\* Execute(): ExecuteN(len(rules) - lastExecutedRule)
ExecuteOp(ctx, rules) == ExecuteNOp(ctx, rules, Len(rules) - ctx.lastExecutedRule)

\* ------------------------------------------------------------ the engine
\* the rule texts the callers queue
RuleEmit      == << FeeStmt(Const(10), "USD") >>
RuleAssign    == << SetStmt("amount", Inc("amount")) >>
RuleAssignFee == << SetStmt("amount", Inc("amount")), FeeStmt(Inc("rate"), "EUR") >>
RuleStrings   == << StrsStmt(<< FeeStmt(Const(10), "USD"), FeeStmt(Inc("rate"), "EUR") >>) >>
RuleFeeArray  == << FeesStmt(<< FeeStmt(Const(10), "USD"), FeeStmt(Const(20), "EUR") >>) >>
RuleRefund    == << FeeStmt(Const(-10), "USD") >>
RuleAssignUse == << SetStmt("amount", Inc("amount")), FeeStmt(Inc("amount"), "USD") >>
RuleAssignStrings ==
  << SetStmt("rate", Inc("amount")),
     StrsStmt(<< FeeStmt(Var("rate"), "USD"), FeeStmt(Inc("rate"), "EUR") >>) >>
RuleNil       == << NilStmt >>
RuleInvalid   == << BadStmt >>
RuleEmpty     == << >>

RuleCatalog == { RuleEmit, RuleAssign, RuleAssignFee, RuleStrings, RuleNil, RuleInvalid }

\* the values callers write with SetVar
SetVarValues == { Num(0), NilVal }

\* the variable maps callers construct the context with
InitialVars == { [k \in {"amount"} |-> Num(1)] }

VARIABLES rules,             \* FeeEngine.rules
          Vars,              \* Context.Vars
          FeeItems,          \* Context.FeeItems
          Logs,              \* Context.Logs
          lastExecutedRule,  \* Context.lastExecutedRule (the cursor)
          enableLog,         \* Context.enableLog
          ctxJson,           \* the variables captured at construction
          merged,            \* rule results merged since construction or Reset
          lastOp,            \* the operation called last
          lastCount,         \* its count argument (ExecuteN, Execute)
          ret,               \* what the last call other than Reset returned
          kept,              \* what the caller holds: a result, a context copy,
                             \* the context object it passed to New
          text,              \* the rule text the caller is writing
          mu,                \* Context.mu: the writer and the readers holding it
          pc                 \* where each goroutine that calls the engine stands

vars == << rules, Vars, FeeItems, Logs, lastExecutedRule, enableLog, ctxJson,
           merged, lastOp, lastCount, ret, kept, text, mu, pc >>

\* the goroutines that share the engine
MaxGoroutines == 2
Goroutines == 1 .. MaxGoroutines

\* the zero value of sync.RWMutex: no writer (0), no readers
Unlocked == [writer |-> 0, readers |-> {}]

\* a goroutine that is in no call
Idling  == [op |-> "idle", at |-> 0]
AllIdle == [g \in Goroutines |-> Idling]

\* the Context the engine holds
Ctx == [Vars |-> Vars, FeeItems |-> FeeItems, Logs |-> Logs,
        lastExecutedRule |-> lastExecutedRule, enableLog |-> enableLog]

NoReturn == [err |-> NoErr, errIndex |-> -1, trace |-> <<>>, result |-> NoResult]

\* no rule text written yet
NoText == <<>>

\* what Context.Copy has not returned yet
NoCopy == [Vars |-> EmptyMap, FeeItems |-> <<>>, Logs |-> <<>>, lastExecutedRule |-> -1,
           enableLog |-> FALSE, shares |-> {}]

\* the caller keeps neither a result nor a copy, and passed no context
\* object to New
NothingKept == [result |-> NoResult, copy |-> NoCopy, ctx |-> NoCopy]

\* New(ctx) with a context the caller built, or New(nil)
Init ==
  /\ rules = <<>>
  /\ Vars \in InitialVars
  /\ FeeItems = <<>>
  /\ Logs = <<>>
  /\ lastExecutedRule = 0
  /\ enableLog = FALSE
  /\ ctxJson = Vars
  /\ merged = 0
  /\ lastOp = "New"
  /\ lastCount = 0
  /\ ret = NoReturn
  /\ kept = NothingKept
  /\ text = NoText
  /\ mu = Unlocked
  /\ pc = AllIdle

EnableLog ==
  /\ ~enableLog
  /\ enableLog' = TRUE
  /\ lastOp' = "EnableLog"
  /\ lastCount' = 0
  /\ ret' = NoReturn
  /\ UNCHANGED << rules, Vars, FeeItems, Logs, lastExecutedRule, ctxJson, merged, kept, text, mu, pc >>

\* a faulty AddRule that puts the new rules in front of the queue
appendRulesInFront(queue, new) == new \o queue

\* e.rules = append(e.rules, rules...)
appendRules(queue, new) == queue \o new

\* AddRule(rules...) with rule texts of catalog
AddRuleFrom(catalog) ==
  \E r1 \in catalog, more \in { <<>> } \cup { << r2 >> : r2 \in catalog } :
    /\ Len(rules) + 1 + Len(more) <= MaxRules
    /\ rules' = appendRules(rules, << r1 >> \o more)
    /\ lastOp' = "AddRule"
    /\ lastCount' = 0
    /\ ret' = NoReturn
    /\ UNCHANGED << Vars, FeeItems, Logs, lastExecutedRule, enableLog, ctxJson, merged, kept, text, mu, pc >>

\* a faulty SetVar that takes the written variables as the new snapshot
SetVarMovesSnapshot ==
  \E key \in SetVarKeys, value \in SetVarValues :
    /\ Vars' = MapSet(Vars, key, value)
    /\ ctxJson' = Vars'
    /\ lastOp' = "SetVar"
    /\ lastCount' = 0
    /\ ret' = NoReturn
    /\ UNCHANGED << rules, FeeItems, Logs, lastExecutedRule, enableLog, merged, kept, text, mu, pc >>

\* Context.SetVar(key, value)
SetVar ==
  \E key \in SetVarKeys, value \in SetVarValues :
    /\ Vars' = MapSet(Vars, key, value)
    /\ lastOp' = "SetVar"
    /\ lastCount' = 0
    /\ ret' = NoReturn
    /\ UNCHANGED << rules, FeeItems, Logs, lastExecutedRule, enableLog, ctxJson, merged, kept, text, mu, pc >>

\* the number of rule results a call merged: every index it evaluated, less
\* the faulting one
MergedBy(r) == IF r.errIndex >= 0 THEN Len(r.trace) - 1 ELSE Len(r.trace)

\* the context and the return value after a call that produced r
Returned(op, count, r) ==
  /\ lastOp' = op
  /\ lastCount' = count
  /\ merged + MergedBy(r) <= MaxMerged
  /\ Vars' = r.ctx.Vars
  /\ FeeItems' = r.ctx.FeeItems
  /\ Logs' = r.ctx.Logs
  /\ lastExecutedRule' = r.ctx.lastExecutedRule
  /\ merged' = merged + MergedBy(r)
  /\ ret' = [err |-> r.err, errIndex |-> r.errIndex, trace |-> r.trace, result |-> r.result]
  /\ UNCHANGED << rules, enableLog, ctxJson, kept, text, mu, pc >>

ExecuteN ==
  \E count \in -1 .. MaxCount :
    Returned("ExecuteN", count, ExecuteNOp(Ctx, rules, count))

Execute ==
  Returned("Execute", Len(rules) - lastExecutedRule, ExecuteOp(Ctx, rules))

\* a faulty Reset that clears the run state but keeps the variables
ResetKeepsVars ==
  /\ FeeItems' = <<>>
  /\ Logs' = <<>>
  /\ lastExecutedRule' = 0
  /\ merged' = 0
  /\ lastOp' = "Reset"
  /\ lastCount' = 0
  /\ UNCHANGED << rules, Vars, enableLog, ctxJson, ret, kept, text, mu, pc >>

\* a faulty Reset that rewinds the cursor but keeps the effects and the logs
ResetKeepsEffects ==
  /\ Vars' = ctxJson
  /\ lastExecutedRule' = 0
  /\ merged' = 0
  /\ lastOp' = "Reset"
  /\ lastCount' = 0
  /\ UNCHANGED << rules, FeeItems, Logs, enableLog, ctxJson, ret, kept, text, mu, pc >>

\* Reset(): back to the variables captured at construction, no effects, no
\* logs, cursor 0; the queue stays.  Reset returns the engine, so ret still
\* is the result the caller was handed last
Reset ==
  /\ Vars' = ctxJson
  /\ FeeItems' = <<>>
  /\ Logs' = <<>>
  /\ lastExecutedRule' = 0
  /\ merged' = 0
  /\ lastOp' = "Reset"
  /\ lastCount' = 0
  /\ UNCHANGED << rules, enableLog, ctxJson, ret, kept, text, mu, pc >>

AddRule == AddRuleFrom(RuleCatalog)

Next == EnableLog \/ AddRule \/ SetVar \/ ExecuteN \/ Execute \/ Reset

Spec == Init /\ [][Next]_vars

\* ------------------------------------------- engines that collect fees
\* rule texts that emit: one fee, a negative fee, an array of fees, an array
\* of expression strings, an assignment followed by a fee or by an array of
\* expression strings that use the assigned variable, and a text that does
\* not compile
FeeCatalog == { RuleEmit, RuleRefund, RuleFeeArray, RuleStrings, RuleAssignFee,
                RuleAssignUse, RuleAssignStrings, RuleInvalid }

\* the fee items a caller-built context already holds
PresetFeeItems == { << >>, << FeeItem(50, "USD") >>, << FeeItem(-5, "EUR") >> }

\* the variables of these contexts
FeeInitialVars == { [k \in VarNames |-> Num(1)] }

\* New(ctx) with a context that may already hold fee items
InitFees ==
  /\ rules = <<>>
  /\ Vars \in FeeInitialVars
  /\ FeeItems \in PresetFeeItems
  /\ Logs = <<>>
  /\ lastExecutedRule = 0
  /\ enableLog = FALSE
  /\ ctxJson = Vars
  /\ merged = 0
  /\ lastOp = "New"
  /\ lastCount = 0
  /\ ret = NoReturn
  /\ kept = NothingKept
  /\ text = NoText
  /\ mu = Unlocked
  /\ pc = AllIdle

AddFeeRule == AddRuleFrom(FeeCatalog)

NextFees == AddFeeRule \/ ExecuteN \/ Execute \/ Reset

SpecFees == InitFees /\ [][NextFees]_vars

\* ------------------------------------------ engines that log from the start
\* New(ctx).EnableLog(): logging is on before the first run
InitLogged ==
  /\ rules = <<>>
  /\ Vars \in InitialVars
  /\ FeeItems = <<>>
  /\ Logs = <<>>
  /\ lastExecutedRule = 0
  /\ enableLog = TRUE
  /\ ctxJson = Vars
  /\ merged = 0
  /\ lastOp = "EnableLog"
  /\ lastCount = 0
  /\ ret = NoReturn
  /\ kept = NothingKept
  /\ text = NoText
  /\ mu = Unlocked
  /\ pc = AllIdle

\* the calls made on such an engine that is never reset
NextLogged == AddRule \/ SetVar \/ ExecuteN \/ Execute

SpecLogged == InitLogged /\ [][NextLogged]_vars

\* --------------------------- callers that keep results and context copies
\* a faulty Copy that hands out the variable map of the original
copySharesVars == { "Vars" }

\* the fields of a copy that share storage with the original: none, the
\* map and both lists are made anew
copyShares == { }

\* Context.Copy(): logging is off in the copy
Copy(ctx) ==
  [Vars |-> ctx.Vars, FeeItems |-> ctx.FeeItems, Logs |-> ctx.Logs,
   lastExecutedRule |-> ctx.lastExecutedRule, enableLog |-> FALSE,
   shares |-> copyShares]

\* what the caller reads in the result it keeps: a field that shares
\* storage with the context shows what the context holds now
KeptFeeItems ==
  IF "FeeItems" \in kept.result.shares THEN FeeItems ELSE kept.result.FeeItems
KeptLogs == IF "Logs" \in kept.result.shares THEN Logs ELSE kept.result.Logs
KeptVars == IF kept.result.Context.live THEN Vars ELSE kept.result.Context.Vars

\* what the caller reads in the copy it keeps
CopyVars     == IF "Vars" \in kept.copy.shares THEN Vars ELSE kept.copy.Vars
CopyFeeItems == IF "FeeItems" \in kept.copy.shares THEN FeeItems ELSE kept.copy.FeeItems
CopyLogs     == IF "Logs" \in kept.copy.shares THEN Logs ELSE kept.copy.Logs

KeptCatalog == { RuleEmit, RuleAssign }

AddKeptRule == AddRuleFrom(KeptCatalog)

\* the caller keeps the result a successful run just returned
KeepResult ==
  /\ lastOp \in {"ExecuteN", "Execute"} /\ ret.err = NoErr
  /\ kept.result = NoResult
  /\ kept' = [kept EXCEPT !.result = ret.result]
  /\ UNCHANGED << rules, Vars, FeeItems, Logs, lastExecutedRule, enableLog, ctxJson,
                  merged, lastOp, lastCount, ret, text, mu, pc >>

\* the caller keeps engine.GetContext().Copy()
CopyContext ==
  /\ kept.copy = NoCopy
  /\ kept' = [kept EXCEPT !.copy = Copy(Ctx)]
  /\ UNCHANGED << rules, Vars, FeeItems, Logs, lastExecutedRule, enableLog, ctxJson,
                  merged, lastOp, lastCount, ret, text, mu, pc >>

\* a caller that keeps a result
NextKept == AddKeptRule \/ SetVar \/ ExecuteN \/ Execute \/ Reset \/ KeepResult

SpecKept == InitLogged /\ [][NextKept]_vars

\* a caller that keeps a copy of the context
NextCopy == AddKeptRule \/ SetVar \/ ExecuteN \/ Execute \/ Reset \/ CopyContext

SpecCopy == InitLogged /\ [][NextCopy]_vars

\* ------------------------------------------- callers that write rule texts
\* the pieces callers write rule texts with: a name, =, a number, the
\* separator, a blank, >, a fee call, a fee call whose string holds an =
FeeText   == << "$(", "10", ",", "\"", "USD", "\"", ")" >>
FeeEqText == << "$(", "10", ",", "\"", "a", "=", "b", "\"", ")" >>
Chunks == { << "amount" >>, << "=" >>, << "1" >>, << ";" >>, << Blank >>, << ">" >>,
            FeeText, FeeEqText }

\* the rule text made of the pieces written so far
RECURSIVE Flatten(_)
Flatten(chunks) == IF chunks = <<>> THEN <<>> ELSE Head(chunks) \o Flatten(Tail(chunks))

\* the caller writes one more piece of the rule text; two words are never
\* written next to each other, they would be one word
TypeChunk ==
  \E c \in Chunks :
    /\ rules = <<>>
    /\ Len(text) < MaxChunks
    /\ text # <<>> => ~(IsWord(text[Len(text)][Len(text[Len(text)])]) /\ IsWord(c[1]))
    /\ text' = Append(text, c)
    /\ UNCHANGED << rules, Vars, FeeItems, Logs, lastExecutedRule, enableLog, ctxJson,
                    merged, lastOp, lastCount, ret, kept, mu, pc >>

\* AddRule(text) with the text written (the queue holds what the text
\* compiles to when it is executed)
AddTextRule ==
  /\ rules = <<>>
  /\ rules' = appendRules(rules, << compileRule(Flatten(text)) >>)
  /\ lastOp' = "AddRule"
  /\ lastCount' = 0
  /\ ret' = NoReturn
  /\ UNCHANGED << Vars, FeeItems, Logs, lastExecutedRule, enableLog, ctxJson, merged, kept, text, mu, pc >>

NextText == TypeChunk \/ AddTextRule \/ Execute

SpecText == InitLogged /\ [][NextText]_vars

\* ------------------------------------------------ the forms a rule can take
\* `amount = amount + 1; $(10, "USD"); $(amount + 1, "EUR")`
RuleSetFeeFee ==
  << SetStmt("amount", Inc("amount")), FeeStmt(Const(10), "USD"), FeeStmt(Inc("amount"), "EUR") >>
\* `$(10, "USD"); amount = amount + 1`
RuleFeeThenAssign == << FeeStmt(Const(10), "USD"), SetStmt("amount", Inc("amount")) >>
\* `amount > 1`
RuleValue == << ValStmt(Var("amount")) >>
\* `["Set(\"rate\", amount + 1)", "$(rate, \"USD\")", "$(10, \"EUR\")"]`
RuleStringsSet ==
  << StrsStmt(<< SetStmt("rate", Inc("amount")), FeeStmt(Var("rate"), "USD"),
                 FeeStmt(Const(10), "EUR") >>) >>
\* `["$(10, \"USD\")", "amount = 1"]`: the second string is compiled as it
\* is, without preprocessExpression
RuleStringsAssign ==
  << StrsStmt(<< FeeStmt(Const(10), "USD"), compileExpr(<< "amount", Blank, "=", Blank, "1" >>) >>) >>

\* `[$(10, "USD"), "$(20, \"EUR\")", nil, $(amount + 1, "EUR")]`
RuleMixedArray ==
  << FeesStmt(<< FeeStmt(Const(10), "USD"), StrElem(FeeStmt(Const(20), "EUR")), NilStmt,
                 FeeStmt(Inc("amount"), "EUR") >>) >>

FormCatalog == { RuleSetFeeFee, RuleFeeThenAssign, RuleNil, RuleEmpty, RuleValue,
                 RuleStringsSet, RuleStringsAssign, RuleFeeArray, RuleMixedArray }

AddFormRule == AddRuleFrom(FormCatalog)

NextForms == AddFormRule \/ ExecuteN \/ Execute

SpecForms == InitLogged /\ [][NextForms]_vars

\* ------------------------------------------------------ numeric coercion
\* the numbers the integer kinds are tried with: the least and the greatest
\* of the signed word, and for uint64 the values above the signed word
SignedSamples   == { -Pow2(WordBits - 1), -1, 0, Pow2(WordBits - 1) - 1 }
UnsignedSamples == { 0, Pow2(WordBits - 1) - 1 }
Uint64Samples   == UnsignedSamples \cup { Pow2(WordBits - 1), Pow2(WordBits) - 1 }

\* the values of amount: every kind toDecimal names, a string that is no
\* decimal literal, a bool, nil
CoerceValues ==
  { Typed(k, n) : k \in SignedKinds, n \in SignedSamples }
  \cup { Typed(k, n) : k \in UnsignedKinds \ {"uint64"}, n \in UnsignedSamples }
  \cup { Typed("uint64", n) : n \in Uint64Samples }
  \cup { Typed(k, 5) : k \in {"decimal", "float64", "float32", "string"} }
  \cup { Typed("badstring", 7), Typed("bool", 1), NilVal }

\* `$(amount, "USD")` and `$(Add(amount, 0), "USD")`
RuleFeeOf    == << FeeStmt(Var("amount"), "USD") >>
RuleFeeOfDec == << FeeStmt(Dec("amount"), "USD") >>

CoerceCatalog == { RuleFeeOf, RuleFeeOfDec }

\* New(ctx).EnableLog() with a context whose amount is one of the values
InitCoerce ==
  /\ rules = <<>>
  /\ Vars \in { [k \in {"amount"} |-> v] : v \in CoerceValues }
  /\ FeeItems = <<>>
  /\ Logs = <<>>
  /\ lastExecutedRule = 0
  /\ enableLog = TRUE
  /\ ctxJson = Vars
  /\ merged = 0
  /\ lastOp = "EnableLog"
  /\ lastCount = 0
  /\ ret = NoReturn
  /\ kept = NothingKept
  /\ text = NoText
  /\ mu = Unlocked
  /\ pc = AllIdle

AddCoerceRule == AddRuleFrom(CoerceCatalog)

NextCoerce == AddCoerceRule \/ ExecuteN \/ Execute

SpecCoerce == InitCoerce /\ [][NextCoerce]_vars

\* ----------------------------------------------- a caller that keeps calling
\* ExecuteN(count) with a count the call accepts
ExecuteNPositive ==
  \E count \in 1 .. MaxCount :
    \E r \in { ExecuteNOp(Ctx, rules, count) } : Returned("ExecuteN", count, r)

\* ExecuteN(count) with a count the call rejects
ExecuteNRejected ==
  \E count \in -1 .. 0 :
    Returned("ExecuteN", count, ExecuteNOp(Ctx, rules, count))

\* rules that never fail are queued, variables are set, ExecuteN is called
NextProgress == AddKeptRule \/ SetVar \/ ExecuteNPositive \/ ExecuteNRejected

\* the caller calls ExecuteN with a positive count again and again: a call
\* runs on the caller's goroutine and returns (the loop of ExecuteN is
\* bounded by the queue), so a caller that repeats it is never held up
SpecProgress == InitLogged /\ [][NextProgress]_vars /\ WF_vars(ExecuteNPositive)

\* ------------------------------------------- goroutines sharing the engine
\* what a call does to the context, step by step: it takes or releases
\* Context.mu, or reads or writes one of the fields the mutex guards
Ins(k, f) == [k |-> k, f |-> f]

GuardedFields == { "Vars", "FeeItems", "Logs" }

\* Context.SetVar, Context.GetVar, Context.addFeeItem, Context.addLog
SetVarCode     == << Ins("Lock", ""), Ins("write", "Vars"), Ins("Unlock", "") >>
GetVarCode     == << Ins("RLock", ""), Ins("read", "Vars"), Ins("RUnlock", "") >>
addFeeItemCode == << Ins("Lock", ""), Ins("write", "FeeItems"), Ins("Unlock", "") >>
addLogCode     == << Ins("Lock", ""), Ins("write", "Logs"), Ins("Unlock", "") >>

\* Context.Copy
CopyCode ==
  << Ins("RLock", ""), Ins("read", "Vars"), Ins("read", "FeeItems"), Ins("read", "Logs"),
     Ins("RUnlock", "") >>

\* executeExpression: the environment is filled from ctx.Vars
envSnapshotCode == << Ins("RLock", ""), Ins("read", "Vars"), Ins("RUnlock", "") >>

\* a faulty log snapshot that ranges over e.ctx.Vars without the mutex
logSnapshotUnlocked == << Ins("read", "Vars") >>

\* ExecuteN: varsAfter is filled from e.ctx.Vars
logSnapshotCode == << Ins("RLock", ""), Ins("read", "Vars"), Ins("RUnlock", "") >>

\* buildExecuteResult: the summary and the copies of FeeItems and Logs
buildExecuteResultCode ==
  << Ins("RLock", ""), Ins("read", "FeeItems"), Ins("read", "FeeItems"), Ins("read", "Logs"),
     Ins("RUnlock", "") >>

\* ExecuteN(1) on a rule that records an effect and assigns a variable,
\* with logging enabled
ExecuteNCode ==
  envSnapshotCode \o addFeeItemCode \o SetVarCode \o logSnapshotCode \o addLogCode
    \o buildExecuteResultCode

CallNames == { "SetVar", "GetVar", "Copy", "ExecuteN" }

CodeOf(op) ==
  CASE op = "SetVar" -> SetVarCode
    [] op = "GetVar" -> GetVarCode
    [] op = "Copy"   -> CopyCode
    [] OTHER         -> ExecuteNCode

\* the instruction goroutine g stands at (none when it is in no call or
\* past the end of one)
NoIns == Ins("none", "")
InsAt(g) ==
  IF pc[g].op # "idle" /\ pc[g].at <= Len(CodeOf(pc[g].op))
  THEN CodeOf(pc[g].op)[pc[g].at] ELSE NoIns

Advance(g) == pc' = [pc EXCEPT ![g].at = pc[g].at + 1]

\* the engine's data, which the steps below leave alone
engineState == << rules, Vars, FeeItems, Logs, lastExecutedRule, enableLog, ctxJson,
                  merged, lastOp, lastCount, ret, kept, text >>

\* goroutine g starts a call
Call(g) ==
  /\ pc[g] = Idling
  /\ \E op \in CallNames : pc' = [pc EXCEPT ![g] = [op |-> op, at |-> 1]]
  /\ UNCHANGED << engineState, mu >>

\* mu.Lock() returns when no goroutine holds the mutex, mu.RLock() when no
\* writer holds it
Acquire(g) ==
  /\ \/ /\ InsAt(g).k = "Lock"
        /\ mu.writer = 0 /\ mu.readers = {}
        /\ mu' = [mu EXCEPT !.writer = g]
     \/ /\ InsAt(g).k = "RLock"
        /\ mu.writer = 0
        /\ mu' = [mu EXCEPT !.readers = mu.readers \cup {g}]
  /\ Advance(g)
  /\ UNCHANGED engineState

\* mu.Unlock(), mu.RUnlock()
Release(g) ==
  /\ \/ /\ InsAt(g).k = "Unlock"
        /\ mu' = [mu EXCEPT !.writer = 0]
     \/ /\ InsAt(g).k = "RUnlock"
        /\ mu' = [mu EXCEPT !.readers = mu.readers \ {g}]
  /\ Advance(g)
  /\ UNCHANGED engineState

\* goroutine g completes the read or the write it stands at
Access(g) ==
  /\ InsAt(g).k \in {"read", "write"}
  /\ Advance(g)
  /\ UNCHANGED << engineState, mu >>

\* the call of goroutine g returns
Return(g) ==
  /\ pc[g].op # "idle" /\ pc[g].at > Len(CodeOf(pc[g].op))
  /\ pc' = [pc EXCEPT ![g] = Idling]
  /\ UNCHANGED << engineState, mu >>

NextShared ==
  \E g \in Goroutines : Call(g) \/ Acquire(g) \/ Release(g) \/ Access(g) \/ Return(g)

SpecShared == InitLogged /\ [][NextShared]_vars

\* ------------------------------------------------ engines built by New(ctx)
\* the nil argument of New
NilCtx == [nil |-> TRUE, Vars |-> EmptyMap, FeeItems |-> <<>>, Logs |-> <<>>,
           lastExecutedRule |-> 0, enableLog |-> FALSE]

\* &Context{Vars: given, FeeItems: make([]FeeItem, 0), Logs: make([]Log, 0)}
ContextOf(given) == [nil |-> FALSE, Vars |-> given, FeeItems |-> <<>>, Logs |-> <<>>,
                     lastExecutedRule |-> 0, enableLog |-> FALSE]

\* what callers pass to New: nil, an empty context, a context with variables
CtxArgs == { NilCtx, ContextOf(EmptyMap) } \cup { ContextOf(v) : v \in InitialVars }

\* the context New builds when it is given nil
defaultContext == [Vars |-> EmptyMap, FeeItems |-> <<>>, Logs |-> <<>>,
                   lastExecutedRule |-> 0, enableLog |-> FALSE]

\* the fields of a context object
fieldsOf(ctx) == [Vars |-> ctx.Vars, FeeItems |-> ctx.FeeItems, Logs |-> ctx.Logs,
                  lastExecutedRule |-> ctx.lastExecutedRule, enableLog |-> ctx.enableLog]

\* the storage an engine shares with the context object it was given
ContextFields == { "Vars", "FeeItems", "Logs", "lastExecutedRule", "enableLog" }

\* a faulty New whose default context has logging switched on
NewLogsByDefault(ctx) ==
  [ctx    |-> IF ctx.nil THEN [defaultContext EXCEPT !.enableLog = TRUE] ELSE fieldsOf(ctx),
   rules  |-> <<>>,
   shares |-> IF ctx.nil THEN {} ELSE ContextFields]

\* New(ctx): a nil ctx is replaced by a fresh default context, any other
\* ctx is stored as the pointer it is; the queue starts empty
New(ctx) ==
  [ctx    |-> IF ctx.nil THEN defaultContext ELSE fieldsOf(ctx),
   rules  |-> <<>>,
   shares |-> IF ctx.nil THEN {} ELSE ContextFields]

\* the caller's handle on the object it passed to New (none for nil)
HandleOf(arg, e) ==
  IF arg.nil THEN NoCopy
  ELSE [Vars |-> arg.Vars, FeeItems |-> arg.FeeItems, Logs |-> arg.Logs,
        lastExecutedRule |-> arg.lastExecutedRule, enableLog |-> arg.enableLog,
        shares |-> e.shares]

\* the state after e := New(arg)
InitFrom(arg, e) ==
  /\ rules = e.rules
  /\ Vars = e.ctx.Vars
  /\ FeeItems = e.ctx.FeeItems
  /\ Logs = e.ctx.Logs
  /\ lastExecutedRule = e.ctx.lastExecutedRule
  /\ enableLog = e.ctx.enableLog
  /\ ctxJson = e.ctx.Vars
  /\ merged = 0
  /\ lastOp = "New"
  /\ lastCount = 0
  /\ ret = NoReturn
  /\ kept = [NothingKept EXCEPT !.ctx = HandleOf(arg, e)]
  /\ text = NoText
  /\ mu = Unlocked
  /\ pc = AllIdle

InitNew == \E arg \in CtxArgs : InitFrom(arg, New(arg))

\* what the caller reads through the context object it passed to New
CallerVars     == IF "Vars" \in kept.ctx.shares THEN Vars ELSE kept.ctx.Vars
CallerFeeItems == IF "FeeItems" \in kept.ctx.shares THEN FeeItems ELSE kept.ctx.FeeItems
CallerLogs     == IF "Logs" \in kept.ctx.shares THEN Logs ELSE kept.ctx.Logs
CallerCursor   ==
  IF "lastExecutedRule" \in kept.ctx.shares THEN lastExecutedRule
  ELSE kept.ctx.lastExecutedRule
CallerEnableLog == IF "enableLog" \in kept.ctx.shares THEN enableLog ELSE kept.ctx.enableLog

NextNew == AddKeptRule \/ SetVar \/ EnableLog \/ ExecuteN \/ Execute

SpecNew == InitNew /\ [][NextNew]_vars

\* ------------------------------------- summaries of caller-built contexts
MaxItems == 3          \* longest list of fee items a caller hands over

AmountValues == { -10, 10, 20 }
Currencies   == { "USD", "EUR" }

\* the lists of at most n fee items
FeeItemLists(n) ==
  UNION { [1 .. k -> { FeeItem(a, c) : a \in AmountValues, c \in Currencies }]
          : k \in 0 .. n }

\* New(ctx) with a context that holds a list of fee items and no variable
InitSummary ==
  /\ rules = <<>>
  /\ Vars = EmptyMap
  /\ FeeItems \in FeeItemLists(MaxItems)
  /\ Logs = <<>>
  /\ lastExecutedRule = 0
  /\ enableLog = FALSE
  /\ ctxJson = Vars
  /\ merged = 0
  /\ lastOp = "New"
  /\ lastCount = 0
  /\ ret = NoReturn
  /\ kept = NothingKept
  /\ text = NoText
  /\ mu = Unlocked
  /\ pc = AllIdle

\* ExecuteN on the engine without rules returns the summary of the list
NextSummary == ExecuteN

SpecSummary == InitSummary /\ [][NextSummary]_vars

\* ------------------------------------------------------------------ claims
IsRun     == lastOp \in {"ExecuteN", "Execute"}
RuleFault == ret.err \in {CompileErr, RunErr}

\* the context fields a call may change
ctxFields == << Vars, FeeItems, Logs, lastExecutedRule >>

\* C1: when a run fails on the rule at queue index i, the cursor after the
\* call equals i (the advance over the rules before i stands)
C1_CursorAtFailingIndex ==
  (IsRun /\ RuleFault) => lastExecutedRule = ret.errIndex

\* C2: without a Reset in between, the cursor equals the number of rules
\* whose results have been merged into the context, so no rule is merged twice
C2_CursorCountsMergedRules ==
  lastExecutedRule = merged

\* C3: 0 <= cursor <= len(rules) in every state, and the cursor never
\* decreases except by Reset, which sets it to 0
C3_CursorInRangeAndMonotonic ==
  /\ [](0 <= lastExecutedRule /\ lastExecutedRule <= Len(rules))
  /\ [][ \/ lastExecutedRule' >= lastExecutedRule
         \/ (lastOp' = "Reset" /\ lastExecutedRule' = 0) ]_vars

\* a call given more than was left stopped at the end of a non-empty queue
C3_Witness ==
  /\ lastOp = "ExecuteN" /\ ret.err = NoErr
  /\ lastCount > Len(ret.trace) /\ Len(ret.trace) > 0
  /\ lastExecutedRule = Len(rules)

\* C4: when ExecuteN(a+b) succeeds on a+b rules, ExecuteN(a) followed by
\* ExecuteN(b) from the same state leaves the same variables, effects, logs
\* and cursor, for every split a, b > 0
C4_Resumable ==
  [][ (lastOp' = "ExecuteN" /\ ret'.err = NoErr /\ lastCount' >= 2
       /\ lastExecutedRule + lastCount' <= Len(rules))
      => \A a \in 1 .. (lastCount' - 1) :
           LET first  == ExecuteNOp(Ctx, rules, a)
               second == ExecuteNOp(first.ctx, rules, lastCount' - a)
           IN /\ first.err = NoErr
              /\ second.err = NoErr
              /\ second.ctx = Ctx' ]_vars

\* one call ran two rules that changed a variable, emitted a fee and were logged
C4_Witness ==
  /\ lastOp = "ExecuteN" /\ ret.err = NoErr
  /\ lastCount = 2 /\ Len(ret.trace) = 2
  /\ Len(Logs) = 2 /\ FeeItems # <<>> /\ Vars # ctxJson

\* C5: ExecuteN(count) with count <= 0 returns an error and no result and
\* leaves cursor, variables, effects and logs unchanged, whatever the queue
C5_NonPositiveCountRejected ==
  [][ (lastOp' = "ExecuteN" /\ lastCount' <= 0)
      => /\ ret'.err = CountErr
         /\ ret'.result = NoResult
         /\ UNCHANGED ctxFields ]_vars

\* ExecuteN(0) was rejected on an exhausted queue that holds effects
C5_Witness ==
  /\ lastOp = "ExecuteN" /\ lastCount = 0 /\ ret.err = CountErr
  /\ Len(rules) > 0 /\ lastExecutedRule = Len(rules) /\ FeeItems # <<>>

\* C6: Execute() on an empty or exhausted queue returns the error of
\* ExecuteN(0) and no result; on a pending queue it does what
\* ExecuteN(len(rules) - cursor) does
C6_ExecuteAll ==
  [][ lastOp' = "Execute"
      => IF lastExecutedRule = Len(rules)
         THEN /\ ret'.err = ExecuteNOp(Ctx, rules, 0).err
              /\ ret'.err = CountErr
              /\ ret'.result = NoResult
              /\ UNCHANGED ctxFields
         ELSE LET r == ExecuteNOp(Ctx, rules, Len(rules) - lastExecutedRule)
              IN /\ Ctx' = r.ctx
                 /\ ret'.err = r.err
                 /\ ret'.errIndex = r.errIndex
                 /\ ret'.result = r.result ]_vars

\* Execute() was rejected on a queue that had been run to its end
C6_Witness ==
  /\ lastOp = "Execute" /\ ret.err = CountErr
  /\ Len(rules) > 0 /\ lastExecutedRule = Len(rules)

\* C7: ExecuteN(count) with count > 0 on a queue run to its end succeeds
\* with ProcessedRules = 0 and leaves cursor, variables, effects, logs and
\* the summary unchanged
C7_ExhaustedQueueIsNoOp ==
  [][ (lastOp' = "ExecuteN" /\ lastCount' > 0
       /\ Len(rules) > 0 /\ lastExecutedRule = Len(rules))
      => /\ ret'.err = NoErr
         /\ ret'.result.ProcessedRules = 0
         /\ ret'.result.Summary = summarizeFeeItems(FeeItems)
         /\ ret'.result.FeeItems = FeeItems
         /\ UNCHANGED ctxFields ]_vars

\* a positive count met an exhausted queue whose effects sum to a summary
C7_Witness ==
  /\ lastOp = "ExecuteN" /\ lastCount > 0 /\ ret.err = NoErr
  /\ ret.result.ProcessedRules = 0
  /\ Len(rules) > 0 /\ lastExecutedRule = Len(rules)
  /\ ret.result.Summary # {}

\* C8 (as stated): ExecuteN with a positive count on an engine to which no
\* rule was ever added fails with the invalid-argument error
C8_EmptyQueueRejected ==
  (lastOp = "ExecuteN" /\ lastCount > 0 /\ rules = <<>>) => ret.err = CountErr

\* C8 (amended): ExecuteN with a positive count on an engine to which no
\* rule was ever added succeeds with ProcessedRules = 0 and changes nothing
C8_EmptyQueueIsNoOp ==
  [][ (lastOp' = "ExecuteN" /\ lastCount' > 0 /\ rules = <<>>)
      => /\ ret'.err = NoErr
         /\ ret'.result.ProcessedRules = 0
         /\ ret'.result.FeeItems = <<>>
         /\ lastExecutedRule' = 0
         /\ UNCHANGED ctxFields ]_vars

\* a positive count met an engine without rules
C8_Witness ==
  /\ lastOp = "ExecuteN" /\ lastCount > 0 /\ rules = <<>>
  /\ ret.result.ProcessedRules = 0

\* C9: a successful ExecuteN(count) from cursor c evaluates exactly the
\* indices c, c+1, .., end-1 in that order, where end = min(c + count,
\* len(rules)), sets the cursor to end and reports end - c processed rules
C9_ExecutesExactRange ==
  [][ (lastOp' = "ExecuteN" /\ lastCount' > 0 /\ ret'.err = NoErr)
      => LET c   == lastExecutedRule
             end == IF c + lastCount' < Len(rules) THEN c + lastCount' ELSE Len(rules)
         IN /\ ret'.trace = [k \in 1 .. (end - c) |-> c + k - 1]
            /\ lastExecutedRule' = end
            /\ ret'.result.ProcessedRules = end - c ]_vars

\* a call resumed at a cursor past 0 and was cut short by the end of the queue
C9_Witness ==
  /\ lastOp = "ExecuteN" /\ ret.err = NoErr
  /\ ret.trace = << 1 >> /\ lastCount > 1
  /\ lastExecutedRule = 2

\* C10: when a rule faults, nothing that rule had produced reaches the
\* context: variables, effects and logs are those left by the rules before
\* it, whose merges stay
C10_FaultingRuleMergesNothing ==
  [][ (lastOp' \in {"ExecuteN", "Execute"} /\ ret'.err \in {CompileErr, RunErr})
      => LET k == ret'.errIndex - lastExecutedRule IN
         IF k = 0
         THEN UNCHANGED << Vars, FeeItems, Logs >>
         ELSE LET before == ExecuteNOp(Ctx, rules, k) IN
              /\ k > 0
              /\ before.err = NoErr
              /\ Vars' = before.ctx.Vars
              /\ FeeItems' = before.ctx.FeeItems
              /\ Logs' = before.ctx.Logs ]_vars

\* a rule faulted after an earlier rule of the same call was merged and
\* after its own first statement or sub-expression had acted
C10_Witness ==
  /\ IsRun /\ RuleFault /\ ret.errIndex > lastExecutedRule
  /\ LET part == evalRule(rules[ret.errIndex + 1], Vars)
     IN DOMAIN part.upd # {} \/ part.fees # <<>>

\* the fees of the elements of an array, left to right, evaluated in V
ItemEffects(items, V) ==
  [k \in 1 .. Len(items) |-> newFeeItem(EvalArg(items[k].arg, V).v, items[k].cur)]

\* the effects a rule produces when it is executed with the variables V
RuleEffects(rule, V) ==
  IF Len(rule) = 1 /\ rule[1].op \in {"Strs", "Fees"}
  THEN ItemEffects(rule[1].items, V)
  ELSE resultFeeItems(executeExpression(rule, V).result)

\* the variables after a rule executed with the variables V was merged
VarsAfterRule(rule, V) == mergedVars([Vars |-> V], executeExpression(rule, V).result)

\* the effects of the n rules from queue index i on, executed in order from
\* the variables V, one rule after the other
RECURSIVE EffectsOfRun(_, _, _, _)
EffectsOfRun(queue, V, i, n) ==
  IF n = 0 THEN <<>>
  ELSE RuleEffects(queue[i + 1], V)
       \o EffectsOfRun(queue, VarsAfterRule(queue[i + 1], V), i + 1, n - 1)

\* C11: the accumulated effect list is the concatenation, in execution
\* order, of the effects of each executed rule (a rule's effects in the
\* order of its sub-expressions or array elements): every step but Reset
\* keeps the entries it finds, in place, and a run appends the effects of
\* the rules it merged
C11_EffectsInExecutionOrder ==
  [][ lastOp' # "Reset"
      => /\ Len(FeeItems') >= Len(FeeItems)
         /\ SubSeq(FeeItems', 1, Len(FeeItems)) = FeeItems
         /\ FeeItems' = FeeItems \o
              (IF lastOp' \in {"ExecuteN", "Execute"}
               THEN EffectsOfRun(rules, Vars, lastExecutedRule, MergedBy(ret'))
               ELSE <<>>) ]_vars

\* one call ran a one-fee rule and then an array rule on a context that
\* already held a fee item
C11_Witness ==
  /\ IsRun /\ ret.err = NoErr /\ Len(ret.trace) = 2
  /\ rules = << RuleRefund, RuleFeeArray >>
  /\ FeeItems = << FeeItem(50, "USD"), FeeItem(-10, "USD"),
                   FeeItem(10, "USD"), FeeItem(20, "EUR") >>

\* the currencies that occur in a list of fee items
CurrenciesOf(items) == { items[i].Currency : i \in DOMAIN items }

\* C12: the Summary of every returned result has exactly one entry for each
\* currency of the accumulated effect list (fee items the caller put in
\* the context included), no entry for any other currency, and each
\* amount is the sum of all effects of that currency, negative ones included
C12_SummaryPerCurrency ==
  (IsRun /\ ret.err = NoErr)
  => /\ ret.result.FeeItems = FeeItems
     /\ { e.Currency : e \in ret.result.Summary } = CurrenciesOf(FeeItems)
     /\ Cardinality(ret.result.Summary) = Cardinality(CurrenciesOf(FeeItems))
     /\ \A e \in ret.result.Summary : e.Amount = SumOf(FeeItems, e.Currency)

\* a result over a preset negative fee, an array of two currencies and a
\* refund: the USD fees cancel and the entry stays
C12_Witness ==
  /\ IsRun /\ ret.err = NoErr
  /\ FeeItems = << FeeItem(-5, "EUR"), FeeItem(10, "USD"), FeeItem(20, "EUR"),
                   FeeItem(-10, "USD") >>
  /\ ret.result.Summary = { FeeItem(0, "USD"), FeeItem(15, "EUR") }

\* items rearranged by the permutation p of its indices
Permuted(items, p) == [k \in DOMAIN items |-> items[p[k]]]

\* C13: summarizeFeeItems gives the same set of (currency, total) pairs
\* for every permutation of a list of effects
C13_SummaryOrderIndependent ==
  (lastOp = "ExecuteN" /\ ret.err = NoErr)
  => \A p \in Permutations(DOMAIN FeeItems) :
       summarizeFeeItems(Permuted(FeeItems, p)) = ret.result.Summary

\* the summary of a list whose two USD fees differ and are apart
C13_Witness ==
  /\ lastOp = "ExecuteN" /\ ret.err = NoErr
  /\ FeeItems = << FeeItem(10, "USD"), FeeItem(20, "EUR"), FeeItem(-10, "USD") >>
  /\ ret.result.Summary = { FeeItem(0, "USD"), FeeItem(20, "EUR") }

C15_ResetClearsRunState ==
  [][ lastOp' = "Reset"
      => /\ FeeItems' = <<>>
         /\ Logs' = <<>>
         /\ lastExecutedRule' = 0
         /\ rules' = rules ]_vars

\* Reset acted after a logged call that had merged a fee and then failed
\* on the second rule
C15_Witness ==
  /\ lastOp = "Reset" /\ enableLog
  /\ RuleFault /\ ret.errIndex = 1 /\ ret.trace = << 0, 1 >>
  /\ rules = << RuleEmit, RuleInvalid >>
  /\ FeeItems = <<>> /\ Logs = <<>> /\ lastExecutedRule = 0

\* the context of an engine just constructed with the variables snapshot
\* (logging as chosen before the first run)
Constructed(snapshot, log) ==
  [Vars |-> snapshot, FeeItems |-> <<>>, Logs |-> <<>>, lastExecutedRule |-> 0,
   enableLog |-> log]

\* the indices of a whole queue of n rules
WholeQueue(n) == [k \in 1 .. n |-> k - 1]

StmtSets(stmt) ==
  stmt.op = "Set" \/ \E k \in DOMAIN stmt.items : stmt.items[k].op = "Set"
StmtEmits(stmt) ==
  stmt.op \in {"Fee", "Fees"} \/ \E k \in DOMAIN stmt.items : stmt.items[k].op = "Fee"

RuleSets(rule)  == \E k \in DOMAIN rule : StmtSets(rule[k])
RuleEmits(rule) == \E k \in DOMAIN rule : StmtEmits(rule[k])

\* the rules whose results the call that returned r merged
MergedRules(queue, r) == { queue[r.trace[k] + 1] : k \in 1 .. MergedBy(r) }

\* C17: a run that merges only rules without assignment leaves every
\* variable unchanged, a run that merges only rules without emission
\* leaves the effect list unchanged, and a single rule changes both only
\* when its statements contain both an assignment and an emission
C17_EmitAndAssignAreSeparate ==
  [][ lastOp' \in {"ExecuteN", "Execute"}
      => /\ (\A rule \in MergedRules(rules, ret') : ~RuleSets(rule)) => Vars' = Vars
         /\ (\A rule \in MergedRules(rules, ret') : ~RuleEmits(rule))
              => FeeItems' = FeeItems
         /\ (MergedBy(ret') = 1 /\ Vars' # Vars /\ FeeItems' # FeeItems)
              => \A rule \in MergedRules(rules, ret') : RuleSets(rule) /\ RuleEmits(rule) ]_vars

\* one call ran an assignment-only rule and then an assignment followed by
\* an emission: the first left no effect, the second left both
C17_Witness ==
  /\ IsRun /\ ret.err = NoErr /\ ret.trace = << 0, 1 >>
  /\ rules = << RuleAssign, RuleAssignFee >>
  /\ Vars["amount"] = Num(3)
  /\ Len(FeeItems) = 1 /\ FeeItems[1].Currency = "EUR"

\* the variables statement k of a rule sees when the rule starts with V:
\* V overwritten by the assignments of the statements before k
RECURSIVE EnvBefore(_, _, _)
EnvBefore(rule, k, V) ==
  IF k = 1 THEN V
  ELSE LET env == EnvBefore(rule, k - 1, V) IN
       IF rule[k - 1].op = "Set"
       THEN MapSet(env, rule[k - 1].key, EvalArg(rule[k - 1].arg, env).v)
       ELSE env

\* the effects of the last statement of a rule evaluated with the variables env
LastEffects(last, env) ==
  CASE last.op = "Fee" -> << newFeeItem(EvalArg(last.arg, env).v, last.cur) >>
    [] last.op \in {"Strs", "Fees"} -> ItemEffects(last.items, env)
    [] OTHER -> << >>

\* C18: within a rule a value assigned by an earlier statement is the value
\* every later statement and sub-expression sees, and when the rule
\* succeeds its assignments and its effects are both merged: the effects
\* are computed from the new values and the context holds the new values
C18_AssignedValueIsSeen ==
  [][ (lastOp' \in {"ExecuteN", "Execute"} /\ ret'.err = NoErr /\ Len(ret'.trace) = 1)
      => LET rule == rules[ret'.trace[1] + 1] IN
         /\ Vars' = EnvBefore(rule, Len(rule) + 1, Vars)
         /\ FeeItems' = FeeItems \o LastEffects(rule[Len(rule)],
                                                 EnvBefore(rule, Len(rule), Vars)) ]_vars

\* `amount = amount + 1; $(amount + 1, "USD")` ran with amount = 1: the
\* fee is 3 and the context holds amount = 2
C18_Witness ==
  /\ IsRun /\ ret.err = NoErr /\ ret.trace = << 0 >>
  /\ rules[1] = RuleAssignUse
  /\ Vars["amount"] = Num(2)
  /\ FeeItems = << FeeItem(3, "USD") >>

\* C19: when logging was enabled before the first run and the engine is
\* never reset, the log has one entry for each executed rule, in order:
\* len(Logs) is the cursor and entry k carries the text of the rule at
\* queue index k, also after calls that failed part-way
C19_OneLogPerExecutedRule ==
  /\ Len(Logs) = lastExecutedRule
  /\ \A k \in 1 .. Len(Logs) : k <= Len(rules) /\ Logs[k].Rule = rules[k]

\* the log entry of a rule executed with the variables V: its text, the
\* variables after its assignments, the effects of its last statement
RuleLog(rule, V) ==
  [Rule |-> rule, Vars |-> EnvBefore(rule, Len(rule) + 1, V),
   FeeItems |-> LastEffects(rule[Len(rule)], EnvBefore(rule, Len(rule), V))]

\* the log entries of the n rules from queue index i on, executed in order
\* from the variables V
RECURSIVE LogsOfRun(_, _, _, _)
LogsOfRun(queue, V, i, n) ==
  IF n = 0 THEN <<>>
  ELSE << RuleLog(queue[i + 1], V) >>
       \o LogsOfRun(queue, RuleLog(queue[i + 1], V).Vars, i + 1, n - 1)

\* the FeeItems of the entries of a log, concatenated in order
RECURSIVE LogFeeItems(_)
LogFeeItems(logs) ==
  IF logs = <<>> THEN <<>> ELSE Head(logs).FeeItems \o LogFeeItems(Tail(logs))

\* tail is what list ends with
IsSuffix(tail, list) ==
  /\ Len(tail) <= Len(list)
  /\ tail = SubSeq(list, Len(list) - Len(tail) + 1, Len(list))

\* C20: a log entry holds the full variable map as it is after its rule was
\* merged and the effects of that rule alone, and the FeeItems of all
\* entries, concatenated in order, are the effects accumulated since
\* logging began
C20_LogEntriesPerRule ==
  /\ [](IsSuffix(LogFeeItems(Logs), FeeItems))
  /\ [][ (lastOp' \in {"ExecuteN", "Execute"} /\ enableLog)
         => /\ Logs' = Logs \o LogsOfRun(rules, Vars, lastExecutedRule, MergedBy(ret'))
            /\ FeeItems' = FeeItems \o LogFeeItems(SubSeq(Logs', Len(Logs) + 1, Len(Logs'))) ]_vars

\* logging began after a first fee; the next rule assigned a variable and
\* emitted a fee of its own
C20_Witness ==
  /\ IsRun /\ enableLog /\ ret.err = NoErr
  /\ rules = << RuleEmit, RuleAssignFee >>
  /\ FeeItems = << FeeItem(10, "USD"), FeeItem(1, "EUR") >>
  /\ Logs = << [Rule |-> RuleAssignFee, Vars |-> Vars,
                FeeItems |-> << FeeItem(1, "EUR") >>] >>
  /\ Vars["amount"] = Num(2)

C22_AddRuleAppends ==
  [][ lastOp' = "AddRule"
      => /\ \E r1 \in RuleCatalog, more \in { <<>> } \cup { << r2 >> : r2 \in RuleCatalog } :
              rules' = rules \o << r1 >> \o more
         /\ UNCHANGED << Vars, FeeItems, Logs, lastExecutedRule, enableLog >>
         /\ lastExecutedRule = Len(rules)
              => /\ lastExecutedRule' < Len(rules')
                 /\ ExecuteOp(Ctx', rules').trace # <<>>
                 /\ \A k \in DOMAIN ExecuteOp(Ctx', rules').trace :
                       ExecuteOp(Ctx', rules').trace[k] = Len(rules) + k - 1 ]_vars

\* AddRule added a second copy of a rule after the one-rule queue had been
\* executed to its end
C22_Witness ==
  /\ lastOp = "AddRule" /\ Len(rules) = 2 /\ rules[1] = rules[2]
  /\ lastExecutedRule = 1 /\ FeeItems = << FeeItem(10, "USD") >>

\* the variables after the n rules from queue index i on were executed in
\* order from the variables V: each assignment overwrites what was there
RECURSIVE VarsOfRun(_, _, _, _)
VarsOfRun(queue, V, i, n) ==
  IF n = 0 THEN V
  ELSE VarsOfRun(queue, EnvBefore(queue[i + 1], Len(queue[i + 1]) + 1, V), i + 1, n - 1)

\* what reading name in the variables V gives
Lookup(V, name) ==
  IF name \in DOMAIN V THEN [val |-> V[name], ok |-> TRUE] ELSE [val |-> NilVal, ok |-> FALSE]

\* C23: GetVar(name) gives the value written to name last, by SetVar or by
\* the assignment of a merged rule, and found = false for a name never
\* written; the rules of a run see the values SetVar wrote before it
C23_GetVarReadsLastWrite ==
  /\ [](\A x \in VarNames : GetVar(Ctx, x).ok <=> x \in DOMAIN Vars)
  /\ [][ /\ \A key \in SetVarKeys, value \in SetVarValues :
              (lastOp' = "SetVar" /\ Vars' = MapSet(Vars, key, value))
              => /\ GetVar(Ctx', key) = [val |-> value, ok |-> TRUE]
                 /\ \A x \in VarNames \ {key} : GetVar(Ctx', x) = GetVar(Ctx, x)
         /\ lastOp' \in {"ExecuteN", "Execute"}
              => /\ \A x \in VarNames :
                      GetVar(Ctx', x)
                        = Lookup(VarsOfRun(rules, Vars, lastExecutedRule, MergedBy(ret')), x)
                 /\ IsSuffix(LogFeeItems(LogsOfRun(rules, Vars, lastExecutedRule,
                                                   MergedBy(ret'))), FeeItems')
         /\ lastOp' \in {"AddRule", "EnableLog"}
              => \A x \in VarNames : GetVar(Ctx', x) = GetVar(Ctx, x) ]_vars

\* rate, absent at construction, was written with SetVar and the rule run
\* next emitted rate + 1
C23_Witness ==
  /\ IsRun /\ ret.err = NoErr /\ ret.trace = << 0 >>
  /\ rules[1] = RuleStrings
  /\ "rate" \notin DOMAIN ctxJson
  /\ GetVar(Ctx, "rate") = [val |-> Num(0), ok |-> TRUE]
  /\ FeeItems = << FeeItem(10, "USD"), FeeItem(1, "EUR") >>

ExplicitEmpty == fieldsOf(ContextOf(EmptyMap))

\* C24: New(nil) gives an engine with the default context (no variables,
\* effects or logs, cursor 0, logging off) and an empty queue, which is the
\* state New gives for an explicitly built empty context, and its first run
\* returns what that engine's would; New(ctx) for a ctx that is not nil
\* keeps the caller's object, so the caller reads the engine's state
\* through it
C24_NewNilIsEmptyContext ==
  /\ [](lastOp = "New"
        => /\ rules = <<>> /\ lastExecutedRule = 0 /\ ~enableLog
           /\ kept.ctx = NoCopy
              => /\ Vars = EmptyMap /\ FeeItems = <<>> /\ Logs = <<>>
                 /\ Ctx = ExplicitEmpty)
  /\ [](kept.ctx # NoCopy
        => /\ kept.ctx.shares = ContextFields
           /\ CallerVars = Vars /\ CallerFeeItems = FeeItems
           /\ CallerLogs = Logs /\ CallerCursor = lastExecutedRule
           /\ CallerEnableLog = enableLog)
  /\ [][ (kept.ctx = NoCopy /\ merged = 0 /\ lastExecutedRule = 0 /\ IsRun')
         => /\ Ctx = [ExplicitEmpty EXCEPT !.Vars = Vars, !.enableLog = enableLog]
            /\ \E out \in { ExecuteNOp([ExplicitEmpty EXCEPT !.Vars = Vars,
                                                            !.enableLog = enableLog],
                                       rules, lastCount') } :
                 /\ Ctx' = out.ctx
                 /\ ret'.err = out.err /\ ret'.result = out.result ]_vars

\* an engine built by New(nil) has run its one rule and holds the fee
C24_Witness ==
  /\ kept.ctx = NoCopy /\ lastOp = "Execute" /\ ret.err = NoErr
  /\ rules = << RuleEmit >> /\ ret.result.ProcessedRules = 1
  /\ Vars = EmptyMap /\ FeeItems = << FeeItem(10, "USD") >>

\* the statement candidates of a rule text: its pieces between separators,
\* trimmed, the empty ones left out
RECURSIVE NonEmpty(_)
NonEmpty(parts) ==
  IF parts = <<>> THEN <<>>
  ELSE (IF TrimSpace(Head(parts)) = <<>> THEN <<>> ELSE << TrimSpace(Head(parts)) >>)
       \o NonEmpty(Tail(parts))

Candidates(exprStr) == NonEmpty(Split(exprStr, << ";" >>))

\* the first token of stmt after its first one that is not a blank
RECURSIVE AfterBlanks(_, _)
AfterBlanks(stmt, j) ==
  IF j <= Len(stmt) /\ stmt[j] = Blank THEN AfterBlanks(stmt, j + 1) ELSE j

\* stmt begins with a bare identifier followed by a single =
BeginsWithAssignment(stmt) ==
  /\ IsIdent(stmt[1])
  /\ AfterBlanks(stmt, 2) <= Len(stmt)
  /\ stmt[AfterBlanks(stmt, 2)] = "="
  /\ AfterBlanks(stmt, 2) < Len(stmt) => stmt[AfterBlanks(stmt, 2) + 1] # "="

\* C26: of the statements of a queued rule text, only one that begins with
\* a bare identifier followed by a single = is rewritten into a Set call;
\* every other statement (one with ==, one with an = inside a call
\* argument or a string literal) reaches the evaluator as it was written
C26_RewriteOnlyAssignments ==
  rules # <<>>
  => \A k \in DOMAIN Candidates(Flatten(text)) :
       \/ BeginsWithAssignment(Candidates(Flatten(text))[k])
       \/ processPart(Candidates(Flatten(text))[k]) = << Candidates(Flatten(text))[k] >>

\* C28: empty statement candidates are dropped: a trailing separator or an
\* empty statement put in front gives the same statements as the text
\* itself, and a text without any non-empty statement is a rule without
\* effect that is executed successfully
C28_EmptyStatementsDropped ==
  (lastOp = "Execute" /\ rules # <<>>)
  => /\ compileRule(Flatten(text) \o << ";" >>) = rules[1]
     /\ compileRule(<< Blank, ";" >> \o Flatten(text)) = rules[1]
     /\ Candidates(Flatten(text)) = <<>>
        => /\ ret.err = NoErr /\ ret.result.ProcessedRules = 1
           /\ FeeItems = <<>> /\ Vars = ctxJson

\* C27: when a rule of several statements succeeds, its effects are those
\* of its last statement alone (a fee item returned by an earlier statement
\* is dropped), and what the earlier statements assigned is in the
\* variables afterwards
C27_OnlyLastStatementEmits ==
  [][ (IsRun' /\ ret'.err = NoErr /\ Len(ret'.trace) = 1
       /\ Len(rules[ret'.trace[1] + 1]) > 1)
      => LET rule == rules[ret'.trace[1] + 1] IN
         /\ FeeItems' = FeeItems \o LastEffects(rule[Len(rule)],
                                                 EnvBefore(rule, Len(rule), Vars))
         /\ \A k \in 1 .. Len(rule) - 1 :
              rule[k].op = "Set"
              => /\ rule[k].key \in DOMAIN Vars'
                 /\ (\A j \in k + 1 .. Len(rule) :
                        ~(rule[j].op = "Set" /\ rule[j].key = rule[k].key))
                    => Vars'[rule[k].key] = EvalArg(rule[k].arg, EnvBefore(rule, k, Vars)).v ]_vars

\* `amount = amount + 1; $(10, "USD"); $(amount + 1, "EUR")` ran with
\* amount = 1: the 10 USD of the middle statement is not among the effects,
\* the fee of the last statement is 3 EUR, and amount is 2
C27_Witness ==
  /\ IsRun /\ ret.err = NoErr /\ ret.trace = << 0 >>
  /\ rules[1] = RuleSetFeeFee
  /\ FeeItems = << FeeItem(3, "EUR") >>
  /\ Vars["amount"] = Num(2)

\* a rule that neither assigns nor emits: the empty text, or statements
\* whose values are nil or some other value that is not a fee item
NoOpRule(rule) == \A k \in DOMAIN rule : rule[k].op \in {"Nil", "Val"}

\* C29: a rule that produces neither a mutation nor an effect leaves the
\* variables and the effects as they are, and is executed all the same: it
\* is counted in ProcessedRules, the cursor moves past it, and with logging
\* enabled it gets a log entry with the unchanged variables and no effects
C29_NoOpRuleIsStillExecuted ==
  /\ [](\A k \in DOMAIN Logs :
          NoOpRule(Logs[k].Rule)
          => /\ Logs[k].FeeItems = <<>>
             /\ Logs[k].Vars = IF k = 1 THEN ctxJson ELSE Logs[k - 1].Vars)
  /\ [][ (IsRun' /\ Len(ret'.trace) = 1 /\ NoOpRule(rules[ret'.trace[1] + 1]))
         => /\ ret'.err = NoErr
            /\ ret'.result.ProcessedRules = 1
            /\ lastExecutedRule' = lastExecutedRule + 1
            /\ Vars' = Vars /\ FeeItems' = FeeItems
            /\ ret'.result.FeeItems = FeeItems
            /\ Logs' = IF enableLog
                       THEN Append(Logs, [Rule |-> rules[ret'.trace[1] + 1],
                                          Vars |-> Vars, FeeItems |-> <<>>])
                       ELSE Logs ]_vars

\* the empty rule text was executed after a rule with effects: it is
\* counted and logged, the cursor is at the end of the queue, and the
\* variables and the effects are those the first rule left
C29_Witness ==
  /\ IsRun /\ ret.err = NoErr /\ ret.trace = << 1 >>
  /\ rules = << RuleSetFeeFee, RuleEmpty >>
  /\ ret.result.ProcessedRules = 1 /\ lastExecutedRule = 2
  /\ FeeItems = << FeeItem(3, "EUR") >>
  /\ Len(Logs) = 2 /\ Logs[2].FeeItems = <<>> /\ Logs[2].Vars = Logs[1].Vars
  /\ Vars["amount"] = Num(2)

\* an element of a returned array fails when it does not compile or its
\* argument cannot be evaluated with the variables env
ElementFails(item, env) ==
  item.op = "Bad" \/ (item.op \in {"Set", "Fee", "Val"} /\ EvalArg(item.arg, env).err # NoErr)

\* the elements of a returned array evaluated one after the other from the
\* variables env: whether all succeeded, the variables and the effects
RECURSIVE SubRun(_, _, _)
SubRun(items, env, fees) ==
  IF items = <<>> THEN [ok |-> TRUE, env |-> env, fees |-> fees]
  ELSE IF ElementFails(Head(items), env) THEN [ok |-> FALSE, env |-> env, fees |-> fees]
  ELSE SubRun(Tail(items),
              IF Head(items).op = "Set"
              THEN MapSet(env, Head(items).key, EvalArg(Head(items).arg, env).v)
              ELSE env,
              IF Head(items).op = "Fee"
              THEN Append(fees, newFeeItem(EvalArg(Head(items).arg, env).v, Head(items).cur))
              ELSE fees)

\* C30: when the result of a rule is a non-empty array of strings, the
\* strings are evaluated once each, in array order, with the variables of
\* the rule (a string sees what the strings before it assigned); they are
\* not added to the queue and not preprocessed; their effects are appended
\* in that order; and when one of them fails the rule fails and nothing of
\* it is merged
C30_StringArrayIsEvaluatedInOrder ==
  [][ (IsRun' /\ Len(ret'.trace) = 1
       /\ Len(rules[ret'.trace[1] + 1]) = 1
       /\ rules[ret'.trace[1] + 1][1].op = "Strs"
       /\ rules[ret'.trace[1] + 1][1].items # <<>>)
      => LET sub == SubRun(rules[ret'.trace[1] + 1][1].items, Vars, <<>>) IN
         /\ rules' = rules
         /\ sub.ok => /\ ret'.err = NoErr /\ ret'.result.ProcessedRules = 1
                      /\ FeeItems' = FeeItems \o sub.fees
                      /\ Vars' = sub.env
         /\ ~sub.ok => /\ ret'.err \in {CompileErr, RunErr}
                       /\ FeeItems' = FeeItems /\ Vars' = Vars /\ Logs' = Logs ]_vars

\* `["Set(\"rate\", amount + 1)", "$(rate, \"USD\")", "$(10, \"EUR\")"]` ran
\* with amount = 1: rate is 2, and the effects are 2 USD, then 10 EUR
C30_Witness ==
  /\ IsRun /\ ret.err = NoErr /\ ret.trace = << 0 >>
  /\ rules = << RuleStringsSet >>
  /\ Vars["rate"] = Num(2)
  /\ FeeItems = << FeeItem(2, "USD"), FeeItem(10, "EUR") >>

\* the fee items an array literal holds directly, in order, with the
\* variables env: its fee calls, and nothing for its other elements
RECURSIVE ArrayEffects(_, _)
ArrayEffects(items, env) ==
  IF items = <<>> THEN <<>>
  ELSE (IF Head(items).op = "Fee"
        THEN << newFeeItem(EvalArg(Head(items).arg, env).v, Head(items).cur) >>
        ELSE <<>>)
       \o ArrayEffects(Tail(items), env)

\* C31: when the result of a rule is an array that holds fee items, each
\* of them is recorded, in array order; the elements that are not fee
\* items add nothing, and a string in such an array is not evaluated
C31_ArrayFeeItemsInOrder ==
  [][ (IsRun' /\ Len(ret'.trace) = 1
       /\ Len(rules[ret'.trace[1] + 1]) = 1
       /\ rules[ret'.trace[1] + 1][1].op = "Fees")
      => /\ ret'.err = NoErr
         /\ FeeItems' = FeeItems \o ArrayEffects(rules[ret'.trace[1] + 1][1].items, Vars)
         /\ Vars' = Vars
         /\ enableLog => Logs'[Len(Logs')].FeeItems
                           = ArrayEffects(rules[ret'.trace[1] + 1][1].items, Vars) ]_vars

\* `[$(10, "USD"), "$(20, \"EUR\")", nil, $(amount + 1, "EUR")]` ran with
\* amount = 1: the effects are 10 USD and 2 EUR, without the 20 EUR the
\* string spells
C31_Witness ==
  /\ IsRun /\ ret.err = NoErr /\ ret.trace = << 0 >>
  /\ rules = << RuleMixedArray >>
  /\ FeeItems = << FeeItem(10, "USD"), FeeItem(2, "EUR") >>

\* C32: every rule is evaluated with the variables as they are after all
\* rules executed before it were merged: the first rule of a call sees the
\* variables the context holds (with the assignments of the earlier
\* calls), each later rule of the call sees those the rule before it left,
\* and the context ends up with the variables the last merged rule left
C32_RuleSeesEarlierMutations ==
  [][ (IsRun' /\ MergedBy(ret') > 0)
      => /\ Len(Logs') = Len(Logs) + MergedBy(ret')
         /\ \A j \in 1 .. MergedBy(ret') :
              Logs'[Len(Logs) + j]
                = RuleLog(rules[ret'.trace[j] + 1],
                          IF j = 1 THEN Vars ELSE Logs'[Len(Logs) + j - 1].Vars)
         /\ Vars' = Logs'[Len(Logs')].Vars ]_vars

\* `amount = amount + 1` was queued twice and executed by two calls of one
\* rule each, starting with amount = 1: the second call saw amount = 2 and
\* left amount = 3
C32_Witness ==
  /\ lastOp = "ExecuteN" /\ lastCount = 1 /\ ret.err = NoErr /\ ret.trace = << 1 >>
  /\ rules = << RuleAssign, RuleAssign >>
  /\ Logs[1].Vars["amount"] = Num(2)
  /\ Logs[2].Vars["amount"] = Num(3)
  /\ Vars["amount"] = Num(3)

\* ------------------------------------------------------ coercion claims
\* the i-th effect of a queue of one-fee rules is the effect of the i-th rule
EffectOf(i) == FeeItems[i]

IntegerKinds == SignedKinds \cup UnsignedKinds

\* the kinds toDecimal has a case for
DecimalKinds == {"decimal", "float64", "float32", "string"} \cup IntegerKinds

\* C33: the decimal of an integer is that integer, for every integer kind
\* and every value of the kind, the values of uint64 above the greatest
\* int64 included: `$(Add(amount, 0), "USD")` records the amount itself
C33_IntegersConvertExactly ==
  \A i \in 1 .. Len(FeeItems) :
    (rules[i] = RuleFeeOfDec /\ Vars["amount"].t \in IntegerKinds)
      => EffectOf(i).Amount = Vars["amount"].n

\* C34: the amount of the fee item built from a value is the decimal of
\* that value, for every kind toDecimal has a case for: `$(amount, "USD")`
\* records toDecimal(amount)
C34_FeeAmountIsToDecimal ==
  \A i \in 1 .. Len(FeeItems) :
    (rules[i] = RuleFeeOf /\ Vars["amount"].t \in DecimalKinds)
      => EffectOf(i).Amount = toDecimal(Vars["amount"])

\* C35: a value that is no number (a string that is no decimal literal,
\* nil, a bool) is decimal zero in the fee constructor and in the
\* arithmetic helpers alike, and no rule given it fails: every executed
\* rule recorded its effect, with amount zero
C35_UnsupportedValuesAreZero ==
  (Vars["amount"].t \in {"badstring", "bool", "nil"})
    => /\ ~RuleFault
       /\ Len(FeeItems) = lastExecutedRule
       /\ \A i \in 1 .. Len(FeeItems) : EffectOf(i) = FeeItem(0, "USD")

\* amount is the string "abc"; `$(amount, "USD")` and
\* `$(Add(amount, 0), "USD")` were executed and both recorded zero
C35_Witness ==
  /\ IsRun /\ ret.err = NoErr /\ ret.trace = << 0, 1 >>
  /\ Vars["amount"] = Typed("badstring", 7)
  /\ rules = << RuleFeeOf, RuleFeeOfDec >>
  /\ FeeItems = << FeeItem(0, "USD"), FeeItem(0, "USD") >>

\* ---------------------------------------------------------- fault claims
\* the indices lo, lo + 1, ..., hi in order
Indices(lo, hi) == [k \in 1 .. (hi - lo + 1) |-> lo + k - 1]

\* C36: when a call fails on a rule, the index its error names is an index
\* of the queue at or after the cursor the call started from and within
\* the count asked for; the rule at that index is one that fails with that
\* error on the variables it was given; the rules from the cursor up to it
\* completed (each left its log entry), so it is the first that fails; and
\* the rules handed to the evaluator are those from the cursor up to it,
\* none after it
C36_ErrorNamesFirstFaultingIndex ==
  [][ (IsRun' /\ RuleFault')
      => /\ ret'.errIndex >= lastExecutedRule
         /\ ret'.errIndex < Len(rules)
         /\ ret'.errIndex - lastExecutedRule < lastCount'
         /\ executeExpression(rules[ret'.errIndex + 1], Vars').err = ret'.err
         /\ Len(Logs') = Len(Logs) + (ret'.errIndex - lastExecutedRule)
         /\ \A j \in 1 .. (ret'.errIndex - lastExecutedRule) :
              Logs'[Len(Logs) + j].Rule = rules[lastExecutedRule + j]
         /\ ret'.trace = Indices(lastExecutedRule, ret'.errIndex) ]_vars

\* the first rule was executed by an earlier call; a call for the rest
\* failed on the second rule (an invalid expression), and its error names
\* index 1
C36_Witness ==
  /\ IsRun /\ ret.err = CompileErr /\ ret.errIndex = 1 /\ ret.trace = << 1 >>
  /\ rules = << RuleEmit, RuleInvalid >>
  /\ lastExecutedRule = 1
  /\ Len(Logs) = 1

\* ------------------------------------------------------- logging claims
\* C37: while logging is disabled no call changes the log; EnableLog
\* switches logging on and changes neither the cursor, the variables, the
\* effects, the queue nor the log; and once logging is enabled a call
\* keeps the entries the log has and adds one for each rule it merged,
\* in order, so the log holds entries only for rules executed after
\* logging was enabled
C37_LogOnlyWhileEnabled ==
  [][ /\ ~enableLog => Logs' = Logs
      /\ (enableLog' /\ ~enableLog)
           => /\ lastOp' = "EnableLog"
              /\ UNCHANGED << lastExecutedRule, Vars, FeeItems, Logs, rules >>
      /\ (enableLog /\ IsRun')
           => /\ Len(Logs') = Len(Logs) + MergedBy(ret')
              /\ SubSeq(Logs', 1, Len(Logs)) = Logs
              /\ \A j \in 1 .. MergedBy(ret') :
                   Logs'[Len(Logs) + j].Rule = rules[ret'.trace[j] + 1] ]_vars

\* two rules were queued; the first was executed with logging disabled,
\* then logging was enabled and the second was executed: the log holds the
\* entry of the second rule only
C37_Witness ==
  /\ IsRun /\ enableLog /\ ret.err = NoErr /\ ret.trace = << 1 >>
  /\ rules = << RuleEmit, RuleAssign >>
  /\ lastExecutedRule = 2
  /\ Len(FeeItems) = 1
  /\ Len(Logs) = 1 /\ Logs[1].Rule = RuleAssign

\* C38: a log entry never changes once it is in the log: whatever the
\* engine is asked to do next (queue rules, set a variable, execute rules
\* that assign variables and record effects), the log keeps every entry it
\* has, rule, variables and effects, at its position
C38_LogEntriesNeverChange ==
  [][ /\ Len(Logs') >= Len(Logs)
      /\ \A j \in 1 .. Len(Logs) : Logs'[j] = Logs[j] ]_vars

\* `amount = amount + 1` was executed twice, then rate was set: the first
\* entry still shows amount = 2, the second amount = 3, neither shows rate
C38_Witness ==
  /\ lastOp = "SetVar"
  /\ rules = << RuleAssign, RuleAssign >>
  /\ Len(Logs) = 2
  /\ Logs[1].Vars["amount"] = Num(2) /\ Logs[2].Vars["amount"] = Num(3)
  /\ "rate" \in DOMAIN Vars
  /\ "rate" \notin DOMAIN Logs[1].Vars /\ "rate" \notin DOMAIN Logs[2].Vars

\* ------------------------------------------------------- progress claims
Pending == lastExecutedRule < Len(rules)
Idle    == lastExecutedRule = Len(rules)

\* C39: on a queue of rules that never fail, a call of ExecuteN with a
\* positive count made while rules are pending returns without error with
\* a greater cursor, having evaluated at least one and at most count
\* rules; and when the caller repeats such calls the cursor reaches the
\* end of the queue
C39_PositiveCallsReachIdle ==
  /\ [][ (lastOp' = "ExecuteN" /\ lastCount' > 0 /\ Pending)
         => /\ ret'.err = NoErr
            /\ lastExecutedRule' > lastExecutedRule
            /\ lastExecutedRule' <= Len(rules)
            /\ Len(ret'.trace) >= 1 /\ Len(ret'.trace) <= lastCount'
            /\ lastExecutedRule' = lastExecutedRule + Len(ret'.trace) ]_vars
  /\ (Pending ~> Idle)

\* two rules were queued and two calls of ExecuteN(1) were made: the second
\* moved the cursor from 1 to the end of the queue
C39_Witness ==
  /\ lastOp = "ExecuteN" /\ lastCount = 1 /\ ret.err = NoErr /\ ret.trace = << 1 >>
  /\ Len(rules) = 2 /\ Idle

\* ----------------------------------------------------------- lock claims
\* goroutine g is reading or writing field f
Reading(g, f) == InsAt(g) = Ins("read", f)
Writing(g, f) == InsAt(g) = Ins("write", f)

\* C40: a goroutine that writes the variables, the effect list or the log
\* list holds the context's mutex as its writer, one that reads any of
\* them holds it as a reader; the mutex has a writer only when it has no
\* reader; so no write of such a field happens while another goroutine
\* reads or writes that field
C40_GuardedFieldsUnderLock ==
  /\ mu.writer # 0 => mu.readers = {}
  /\ \A g \in Goroutines, f \in GuardedFields :
       /\ Writing(g, f) => mu.writer = g
       /\ Reading(g, f) => g \in mu.readers
       /\ Writing(g, f)
            => \A h \in Goroutines \ {g} : ~Reading(h, f) /\ ~Writing(h, f)

\* goroutine 1 is inside ExecuteN, writing an assigned variable under the
\* write lock, while goroutine 2 waits in Copy for the read lock
C40_Witness ==
  /\ pc[1].op = "ExecuteN" /\ Writing(1, "Vars") /\ mu.writer = 1
  /\ pc[2] = [op |-> "Copy", at |-> 1]

====
